---- MODULE Spec2Model ----
(***************************************************************************)
(* Scam Report Builder: the ODT document assembler (core/odt_generator.py)  *)
(* and the export handler of the main window (ui/main_window.py).           *)
(*                                                                          *)
(* Text is a sequence of one-character strings (a known label may be one    *)
(* token).  A ReportContent is a function from its populated keys to tagged *)
(* values [kind |-> "str" | "list", v |-> ...], so that Python's            *)
(* isinstance tests and the truthiness of content.get(key) can be followed. *)
(* content.xml is a sequence of body elements in document order; every      *)
(* element carries the text exactly as the generator writes it.             *)
(***************************************************************************)
EXTENDS Integers, Sequences, FiniteSets, TLC

VARIABLES
    content,        \* ReportContent handed to the generator
    images,         \* ordered mapping: sequence of [category, list] pairs
    now,            \* value of datetime.now() used by the generator
    pc,             \* position inside create_odt / of the harness
    temp,           \* files staged in the temporary directory (path -> content)
    temp_exists,    \* the TemporaryDirectory exists on disk
    image_entries,  \* result of _process_images
    dest,           \* the file at output_path
    dest_before,    \* the file at output_path when create_odt was called
    result,         \* return value of create_odt ("none" before it returns)
    xml,            \* content.xml as generated by _create_content_xml
    win,            \* ScamReportBuilder window attributes
    config,         \* scam_report_config.json on disk
    snapshots,      \* snapshot JSON files in the data folder (path -> record)
    odt_files,      \* the .odt files written by the window (path -> file)
    dialog,         \* what the last run of _export_report showed to the operator
    odt_calls,      \* number of times create_odt's body was entered from the window
    custom_folder,  \* templates/custom/: file stem -> parsed content of <stem>.json
    tm_call,        \* the last TemplateManager call and what it returned
    config_file,    \* scam_report_config.json as a JSON object (key -> value)
    cm_config,      \* ConfigManager.config of the running instance
    existing_folders, \* directories for which Path(...).exists() is true
    cm_call         \* the last folder lookup of ConfigManager and what it returned

vars == <<content, images, now, pc, temp, temp_exists, image_entries, dest,
          dest_before, result, xml, win, config, snapshots, odt_files, dialog,
          odt_calls, custom_folder, tm_call, config_file, cm_config,
          existing_folders, cm_call>>

odtVars == <<content, images, now, pc, temp, temp_exists, image_entries, dest,
             dest_before, result, xml>>

storeVars == <<custom_folder, tm_call, config_file, cm_config, existing_folders, cm_call>>

winVars == <<win, config, snapshots, odt_files, dialog, odt_calls, storeVars>>

(***************************************************************************)
(* Bounds of the model                                                      *)
(***************************************************************************)
MaxEdits == 3       \* fields / items the caller populates in one ReportContent
MaxImages == 2      \* (name, data) pairs over all categories
MaxTime == 2        \* distinct clock readings

(***************************************************************************)
(* Text helpers                                                             *)
(***************************************************************************)
RECURSIVE Join(_, _)
\* sep.join(list) of Python
Join(list, sep) ==
    IF Len(list) = 0 THEN <<>>
    ELSE IF Len(list) = 1 THEN list[1]
    ELSE list[1] \o sep \o Join(Tail(list), sep)

Whitespace == {" ", "\n"}

RECURSIVE LStrip(_)
LStrip(s) == IF Len(s) > 0 /\ s[1] \in Whitespace THEN LStrip(Tail(s)) ELSE s

RECURSIVE RStrip(_)
RStrip(s) ==
    IF Len(s) > 0 /\ s[Len(s)] \in Whitespace
    THEN RStrip(SubSeq(s, 1, Len(s) - 1)) ELSE s

\* str.strip()
Strip(s) == RStrip(LStrip(s))

RECURSIVE SplitLines(_, _)
\* s.split('\n'): cur is the line being collected
SplitLines(s, cur) ==
    IF Len(s) = 0 THEN <<cur>>
    ELSE IF s[1] = "\n" THEN <<cur>> \o SplitLines(Tail(s), <<>>)
    ELSE SplitLines(Tail(s), Append(cur, s[1]))

\* the non-blank lines of s, each stripped (the "for line in lines: if line.strip()" loops)
StrippedLines(s) ==
    LET ls == SplitLines(s, <<>>)
        keep == SelectSeq(ls, LAMBDA l : Len(Strip(l)) > 0)
    IN  [i \in 1..Len(keep) |-> Strip(keep[i])]

(***************************************************************************)
(* ReportContent access                                                     *)
(***************************************************************************)
Str(t) == [kind |-> "str", v |-> t]
List(l) == [kind |-> "list", v |-> l]

Has(c, k) == k \in DOMAIN c

\* bool(content.get(k)): present and not empty
Truthy(c, k) == Has(c, k) /\ Len(c[k].v) > 0

IsList(c, k) == Has(c, k) /\ c[k].kind = "list"

\* the ", ".join / str() choice made for every list-or-string field
Display(c, k, sep) == IF IsList(c, k) THEN Join(c[k].v, sep) ELSE c[k].v

(***************************************************************************)
(* XML body elements                                                        *)
(***************************************************************************)
\* <text:p text:style-name=style><text:span T1Underline>label</text:span>text</text:p>
\* (label and text are Text; an empty label means there is no span)
P(style, label, text) ==
    [tag |-> "p", style |-> style, label |-> label, text |-> text,
     href |-> "", width |-> "", height |-> "", index |-> 0]

\* <text:p P1><draw:frame .../></text:p> of one image entry
Frame(entry) ==
    [tag |-> "frame", style |-> "P1", label |-> <<>>, text |-> entry.name,
     href |-> "Pictures/" \o entry.filename, width |-> entry.width,
     height |-> entry.height, index |-> entry.index]

Blank == P("P1", <<>>, <<>>)
PageBreak == P("PageBreak", <<>>, <<>>)

(***************************************************************************)
(* _process_images                                                          *)
(***************************************************************************)
DPI == 96           \* "96 DPI typical"
MaxWidthIn == 6     \* "Limit width to 6 inches max"

\* round(num / den, 2 decimals) in hundredths, ties to even (the f"{x:.2f}" format)
RoundHundredths(num, den) ==
    LET q == (100 * num) \div den
        r == (100 * num) % den
    IN  IF 2 * r > den THEN q + 1
        ELSE IF 2 * r < den THEN q
        ELSE IF q % 2 = 0 THEN q ELSE q + 1

\* f"{x:.2f}in" for x given in hundredths
Fmt2(h) ==
    ToString(h \div 100) \o "." \o ToString((h % 100) \div 10)
        \o ToString(h % 10) \o "in"

\* bool(img_data): None and b'' are skipped
HasData(data) == data.kind \notin {"none", "empty"}

\* Image.open(...).size succeeds
Decodable(data) == data.kind = "jpeg"

\* the width computed from img.size without the except branch
OdtWidthFromSize(data) ==
    IF data.w > MaxWidthIn * DPI THEN Fmt2(100 * MaxWidthIn)
    ELSE Fmt2(RoundHundredths(data.w, DPI))

OdtWidth(data) ==
    IF ~Decodable(data) THEN "4in"
    ELSE IF data.w > MaxWidthIn * DPI THEN Fmt2(100 * MaxWidthIn)
    ELSE Fmt2(RoundHundredths(data.w, DPI))

\* the height in inches without the scale factor
OdtHeightUnscaled(data) ==
    IF ~Decodable(data) THEN "3in" ELSE Fmt2(RoundHundredths(data.h, DPI))

\* height_in * scale_factor is computed in floating point; where 6h/w lies exactly
\* between two hundredths the float product may fall on either side, the exact
\* quotient is used here
OdtHeight(data) ==
    IF ~Decodable(data) THEN "3in"
    ELSE IF data.w > MaxWidthIn * DPI
         THEN Fmt2(RoundHundredths(data.h * MaxWidthIn, data.w))
    ELSE Fmt2(RoundHundredths(data.h, DPI))

RECURSIVE FlattenImages(_)
\* the (category, name, data) triples in the order of the two nested loops
FlattenImages(imgs) ==
    IF Len(imgs) = 0 THEN <<>>
    ELSE [i \in 1..Len(imgs[1].list) |->
             [category |-> imgs[1].category,
              name |-> imgs[1].list[i].name,
              data |-> imgs[1].list[i].data]]
         \o FlattenImages(Tail(imgs))

\* the triples that pass "if img_data"
StagedImages(imgs) == SelectSeq(FlattenImages(imgs), LAMBDA t : HasData(t.data))

ImageFilename(counter) == "image_" \o ToString(counter) \o ".jpg"

\* the entry dict built for the image that receives image_counter = counter
ImageEntry(t, counter) ==
    [filename |-> ImageFilename(counter), category |-> t.category, name |-> t.name,
     width |-> OdtWidth(t.data), height |-> OdtHeight(t.data), index |-> counter]

\* image_counter advanced for every pair, also for the skipped ones
ProcessImagesCountingSkipped(imgs) ==
    LET all == FlattenImages(imgs)
        idx == SelectSeq([i \in 1..Len(all) |-> i], LAMBDA i : HasData(all[i].data))
    IN  [i \in 1..Len(idx) |-> ImageEntry(all[idx[i]], idx[i])]

\* image_entries returned by _process_images
ProcessImages(imgs) ==
    LET st == StagedImages(imgs)
    IN  [i \in 1..Len(st) |-> ImageEntry(st[i], i)]

\* the files _process_images writes below Pictures/
StagedPictures(imgs) ==
    LET st == StagedImages(imgs)
    IN  [i \in 1..Len(st) |-> [path |-> "Pictures/" \o ImageFilename(i), body |-> st[i].data]]

(***************************************************************************)
(* _create_mimetype, _create_manifest                                       *)
(***************************************************************************)
MimetypeText == "application/vnd.oasis.opendocument.text"

FixedManifestPaths == <<"/", "content.xml", "styles.xml", "meta.xml">>

\* manifest:full-path attributes of manifest.xml, in order
Manifest(entries) ==
    FixedManifestPaths \o [i \in 1..Len(entries) |-> "Pictures/" \o entries[i].filename]

(***************************************************************************)
(* _create_content_xml                                                      *)
(***************************************************************************)
KnownLabel == <<"Advance-Fee Scam (419)">>

\* the "(419)" normalisation applied to the scam type
NormalizeType(t) == IF t = KnownLabel THEN <<"Advance-Fee Scam">> ELSE t

\* _get_main_alias
GetMainAlias(c) ==
    IF Truthy(c, "alias")
    THEN IF IsList(c, "alias") THEN c["alias"].v[1] ELSE c["alias"].v
    ELSE <<"Unknown">>

When(cond, elems) == IF cond THEN elems ELSE <<>>

\* the paragraph of one labelled Main-Info field
FieldP(c, k, label, sep) ==
    When(Truthy(c, k), <<P("P1", <<label>>, <<" ">> \o Display(c, k, sep))>>)

\* the paragraph of a field interpolated as it is (summary, started)
RawFieldP(c, k, label) ==
    When(Truthy(c, k), <<P("P1", <<label>>, <<" ">> \o c[k].v)>>)

\* the block labelled without the enumerate() counter
BankBlockUnnumbered(account, i) ==
    <<P("P1", <<"Bank Account 1:">>, <<>>)>>
    \o [j \in 1..Len(StrippedLines(account)) |-> P("P1", <<>>, StrippedLines(account)[j])]
    \o <<Blank>>

\* one "Bank Account i:" block of a list entry
BankBlock(account, i) ==
    <<P("P1", <<"Bank Account " \o ToString(i) \o ":">>, <<>>)>>
    \o [j \in 1..Len(StrippedLines(account)) |-> P("P1", <<>>, StrippedLines(account)[j])]
    \o <<Blank>>

RECURSIVE BankBlocks(_, _)
BankBlocks(accounts, i) ==
    IF i > Len(accounts) THEN <<>>
    ELSE BankBlock(accounts[i], i) \o BankBlocks(accounts, i + 1)

\* the BANK ACCOUNTS part
BankSection(c) ==
    When(Truthy(c, "bank_info"),
         <<P("P1BoldUnderline", <<>>, <<"BANK ACCOUNTS">>)>>
         \o (IF IsList(c, "bank_info")
             THEN BankBlocks(c["bank_info"].v, 1)
             ELSE BankBlock(c["bank_info"].v, 1))
         \o <<Blank>>)

\* the block of one other-payment dict
PaymentBlock(payment) ==
    <<P("ListBullet", payment.type \o <<":">>, <<"- ">>)>>
    \o (IF \E j \in 1..Len(payment.details) : payment.details[j] = "\n"
        THEN [j \in 1..Len(StrippedLines(payment.details)) |->
                 P("P1", <<>>, StrippedLines(payment.details)[j])]
        ELSE <<P("P1", <<>>, payment.details)>>)

RECURSIVE PaymentBlocks(_)
PaymentBlocks(payments) ==
    IF Len(payments) = 0 THEN <<>>
    ELSE PaymentBlock(payments[1]) \o PaymentBlocks(Tail(payments))

\* the "Other payment methods:" part
PaymentSection(c) ==
    When(Truthy(c, "other_payments"),
         <<P("P1", <<"Other payment methods:">>, <<>>)>>
         \o When(IsList(c, "other_payments"), PaymentBlocks(c["other_payments"].v))
         \o <<Blank>>)

\* the Fee/Amount paragraph and its two spacers
AmountSection(c) ==
    When(Truthy(c, "amount"),
         <<P("P1", <<"Fee/Amount:">>, <<" ">> \o c["amount"].v), Blank, Blank>>)

\* the Remarks part
RemarksSection(c) ==
    When(Truthy(c, "remarks"),
         <<P("P1", <<"Remarks:">>, <<>>)>>
         \o (IF IsList(c, "remarks")
             THEN [j \in 1..Len(c["remarks"].v) |->
                      P("ListBullet", <<>>, <<"- ">> \o c["remarks"].v[j])]
             ELSE <<P("ListBullet", <<>>, <<"- ">> \o c["remarks"].v)>>)
         \o <<Blank>>)

\* the scam type as _add_report_sections reads it: content.get('type', '')
SectionType(c) == IF Has(c, "type") THEN NormalizeType(c["type"].v) ELSE <<>>

\* _add_report_sections: the elements appended to xml, in order
AddReportSections(c) ==
    When(Len(SectionType(c)) > 0,
         <<P("P1", <<"Type of scam:">>, <<" ">> \o SectionType(c))>>)
    \o RawFieldP(c, "summary", "Short summary:")
    \o <<Blank>>
    \o FieldP(c, "alias", "Scammers aliase(s):", <<", ">>)
    \o FieldP(c, "emails", "Email(s):", <<", ">>)
    \o FieldP(c, "websites", "Website(s):", <<", ">>)
    \o FieldP(c, "ips", "IPs:", <<", ">>)
    \o FieldP(c, "locations", "Geo location(s):", <<" / ">>)
    \o RawFieldP(c, "started", "Started:")
    \o <<Blank>>
    \o BankSection(c)
    \o PaymentSection(c)
    \o AmountSection(c)
    \o RemarksSection(c)

\* category_order of _add_images_to_xml
CategoryOrder == <<"passport_ids", "scammer_photos", "victim_ids", "others">>

\* category_labels.get(category, category.replace('_', ' ').title() + ":")
CategoryLabel(cat) ==
    CASE cat = "passport_ids" -> <<"Scammers passport/ID:">>
      [] cat = "scammer_photos" -> <<"Photo of scammer (video available):">>
      [] cat = "victim_ids" -> <<"Possible Victim / Money-Mule ID:">>
      [] cat = "others" -> <<"Others:">>
      [] OTHER -> <<"title(", cat, "):">>

Placeholder == <<"(to be collected)">>

\* "if real_name and real_name.strip() and real_name.strip() != placeholder"
ShowsRealName(name) == Len(Strip(name)) > 0 /\ Strip(name) # Placeholder

HasScammerNames(c) == Truthy(c, "scammer_names") /\ IsList(c, "scammer_names")
HasScammerRealName(c) == Truthy(c, "scammer_real_name")

\* should_show_evidence without the legacy scammer_real_name test
ShouldShowEvidenceNoRealName(c, entries) ==
    HasScammerNames(c) \/ Len(entries) > 0

\* should_show_evidence
ShouldShowEvidence(c, entries) ==
    HasScammerNames(c) \/ HasScammerRealName(c) \/ Len(entries) > 0

\* the "Scammers real name:" paragraph, if any
RealNameP(c) ==
    IF HasScammerNames(c)
    THEN When(ShowsRealName(c["scammer_names"].v[1]),
              <<P("P1", <<"Scammers real name:">>, <<" ">> \o c["scammer_names"].v[1])>>)
    ELSE IF HasScammerRealName(c)
    THEN When(ShowsRealName(c["scammer_real_name"].v),
              <<P("P1", <<"Scammers real name:">>, <<" ">> \o c["scammer_real_name"].v)>>)
    ELSE <<>>

\* images_by_category[cat]
ImagesOfCategory(entries, cat) == SelectSeq(entries, LAMBDA e : e.category = cat)

\* the rendered categories in the order in which the input mapping yields them
ExistingCategoriesInInputOrder(entries) ==
    LET known == {CategoryOrder[c] : c \in 1..Len(CategoryOrder)}
        firsts == SelectSeq([i \in 1..Len(entries) |-> i],
                            LAMBDA i : /\ entries[i].category \in known
                                       /\ \A j \in 1..(i - 1) :
                                              entries[j].category # entries[i].category)
    IN  [k \in 1..Len(firsts) |-> entries[firsts[k]].category]

\* existing_categories: the categories of category_order that have images
ExistingCategories(entries) ==
    SelectSeq(CategoryOrder, LAMBDA cat : Len(ImagesOfCategory(entries, cat)) > 0)

\* the elements of the i-th category group
CategoryGroup(entries, cats, i) ==
    When(i > 1, <<PageBreak>>)
    \o <<P("P1", CategoryLabel(cats[i]), <<>>)>>
    \o [j \in 1..Len(ImagesOfCategory(entries, cats[i])) |->
           Frame(ImagesOfCategory(entries, cats[i])[j])]

RECURSIVE CategoryGroups(_, _, _)
CategoryGroups(entries, cats, i) ==
    IF i > Len(cats) THEN <<>>
    ELSE CategoryGroup(entries, cats, i) \o CategoryGroups(entries, cats, i + 1)

\* _add_images_to_xml: the elements appended to xml, in order
AddImagesToXml(entries, c) ==
    When(ShouldShowEvidence(c, entries),
         <<PageBreak, P("P1", <<"Evidence:">>, <<>>)>>
         \o RealNameP(c)
         \o When(Len(entries) > 0, CategoryGroups(entries, ExistingCategories(entries), 1))
         \o <<Blank>>)

\* the title line and the timestamp line
TitleLines(c, t) ==
    <<P("P1BoldUnderline", <<>>,
        <<"Report for ">>
        \o NormalizeType(IF Has(c, "type") THEN c["type"].v ELSE <<"Unknown Type">>)
        \o <<" scammer \"">> \o GetMainAlias(c) \o <<"\"">>),
      P("P1", <<>>, <<"Generated: ", ToString(t)>>),
      Blank>>

\* the body of content.xml written by _create_content_xml at clock reading t
ContentXml(c, entries, t) ==
    TitleLines(c, t) \o AddReportSections(c) \o AddImagesToXml(entries, c)

\* the fr<index> automatic styles declared in content.xml
FrameStyles(entries) == {entries[i].index : i \in 1..Len(entries)}

(***************************************************************************)
(* Inputs: what a caller (ScamReportBuilder._collect_data) can hand over    *)
(***************************************************************************)
\* keys in the order the form collects them
KeyOrder == <<"type", "summary", "alias", "emails", "websites", "social_media", "ips",
              "locations", "other_info", "started", "bank_info", "other_payments",
              "amount", "scammer_names", "scammer_real_name", "remarks">>

TextKeys == {"type", "summary", "started", "amount", "scammer_real_name"}

ListKeys == {"alias", "emails", "websites", "social_media", "ips", "locations",
             "other_info", "bank_info", "scammer_names", "remarks"}

KeyIndex(k) == CHOOSE i \in 1..Len(KeyOrder) : KeyOrder[i] = k

\* values an operator may type into the field k
Samples(k) ==
    CASE k = "type" -> {KnownLabel, <<"R", "&", "D">>}
      [] k = "alias" -> {<<"a">>, <<"<", "b", ">">>}
      [] k = "bank_info" -> {<<"x", "\n", " ", "y", " ">>, <<"z">>}
      [] k = "scammer_names" -> {<<"n">>, Placeholder}
      [] k = "remarks" -> {<<"r", "&">>}
      [] k = "started" -> {<<"01/02/26">>}
      [] OTHER -> {<<k>>}

PaymentSamples ==
    {[type |-> <<"PayPal">>, details |-> <<"p", "\n", "q">>],
     [type |-> <<"W", "&", "U">>, details |-> <<"d">>]}

ImageCategories == {"passport_ids", "scammer_photos", "others", "other_documents"}

NoData == [kind |-> "none", w |-> 0, h |-> 0]

\* (name, data) pairs an image widget or a direct caller may supply
ImageSamples ==
    {[name |-> <<"big.jpg">>, data |-> [kind |-> "jpeg", w |-> 1920, h |-> 1080]],
     [name |-> <<"a", "&", "b", ".png">>, data |-> [kind |-> "junk", w |-> 0, h |-> 0]],
     [name |-> <<"gone.jpg">>, data |-> NoData]}

RECURSIVE ContentSizeFrom(_, _)
ContentSizeFrom(c, i) ==
    IF i > Len(KeyOrder) THEN 0
    ELSE (IF ~Has(c, KeyOrder[i]) THEN 0
          ELSE IF c[KeyOrder[i]].kind = "list" THEN Len(c[KeyOrder[i]].v) ELSE 1)
         + ContentSizeFrom(c, i + 1)

\* number of values the content holds
ContentSize(c) == ContentSizeFrom(c, 1)

\* number of (name, data) pairs in the mapping
ImageCount(imgs) == Len(FlattenImages(imgs))

EmptyContent == [k \in {} |-> Str(<<>>)]

\* the fields are collected in form order: k may be filled when no later field is
MayFill(k) ==
    /\ pc = "input"
    /\ images = <<>>
    /\ ContentSize(content) + ImageCount(images) < MaxEdits
    /\ \A k2 \in DOMAIN content : KeyIndex(k2) <= KeyIndex(k)

\* a text field is filled in
SetText(k, t) ==
    /\ MayFill(k)
    /\ ~Has(content, k)
    /\ content' = (k :> Str(t)) @@ content
    /\ UNCHANGED <<images, now, pc, temp, temp_exists, image_entries, dest,
                   dest_before, result, xml, winVars>>

\* an entry is added to a list field
AppendItem(k, t) ==
    /\ MayFill(k)
    /\ content' = (k :> List(IF Has(content, k) THEN Append(content[k].v, t) ELSE <<t>>))
                  @@ content
    /\ UNCHANGED <<images, now, pc, temp, temp_exists, image_entries, dest,
                   dest_before, result, xml, winVars>>

\* an image is added to the list of a category (a new category goes last in the mapping)
AddImage(cat, img) ==
    /\ pc = "input"
    /\ ImageCount(images) < MaxImages
    /\ IF Len(images) > 0 /\ images[Len(images)].category = cat
       THEN images' = [images EXCEPT ![Len(images)].list = Append(@, img)]
       ELSE /\ \A i \in 1..Len(images) : images[i].category # cat
            /\ images' = Append(images, [category |-> cat, list |-> <<img>>])
    /\ UNCHANGED <<content, now, pc, temp, temp_exists, image_entries, dest,
                   dest_before, result, xml, winVars>>

FillForm ==
    \/ \E k \in TextKeys : \E t \in Samples(k) : SetText(k, t)
    \/ \E k \in ListKeys : \E t \in Samples(k) : AppendItem(k, t)
    \/ \E p \in PaymentSamples : AppendItem("other_payments", p)
    \/ /\ ContentSize(content) + ImageCount(images) < MaxEdits
       /\ \E cat \in ImageCategories : \E img \in ImageSamples : AddImage(cat, img)

(***************************************************************************)
(* SpecContent: _process_images' entries and _create_content_xml applied to *)
(* every bounded input                                                      *)
(***************************************************************************)
\* no file at output_path
Absent == [exists |-> FALSE, entries |-> <<>>, complete |-> FALSE]

\* a report exported earlier to the same path
OldReport ==
    [exists |-> TRUE, complete |-> TRUE,
     entries |-> <<[name |-> "mimetype", compress |-> "STORED", body |-> MimetypeText],
                   [name |-> "content.xml", compress |-> "DEFLATED", body |-> <<Blank>>]>>]

(***************************************************************************)
(* The window, the configuration file and the files it writes               *)
(***************************************************************************)
Folders == {"r", "s"}
Stems == {"A", "B"}

\* paths a save dialog can return; the snapshot of dir/stem.odt is <data folder>/stem.json
OdtPaths == [dir : Folders, stem : Stems]
NoPath == [dir |-> "", stem |-> ""]

\* ScamReportBuilder.__init__ (0, "" and NoPath stand for None)
NewWindow(required) ==
    [template_key |-> "advance-fee", required |-> required, report_number |-> 0,
     report_format |-> "", last_saved_json_path |-> "", original_odt_path |-> NoPath]

\* the default configuration of load_config
DefaultConfig ==
    [last_report_number |-> 0, numbering_format |-> "{number}", output_directory |-> "",
     report_folder |-> "", last_used_folder |-> "", last_template_key |-> ""]

NoDialog ==
    [outcome |-> "none", prompted |-> FALSE, default_number |-> 0, accepted_number |-> 0,
     path_chosen |-> FALSE, odt_entered |-> FALSE]

NoFiles == [p \in OdtPaths |-> Absent]

\* no custom template file, no TemplateManager call, no configuration file or instance
NoCall == [op |-> "none"]
NoObject == [k \in {} |-> ""]

StoresIdle ==
    /\ custom_folder = [s \in {} |-> NoObject]
    /\ tm_call = NoCall
    /\ config_file = NoObject
    /\ cm_config = NoObject
    /\ existing_folders = {}
    /\ cm_call = NoCall

InitIdle ==
    /\ content = EmptyContent
    /\ images = <<>>
    /\ now = 1
    /\ pc = "input"
    /\ temp = <<>>
    /\ temp_exists = FALSE
    /\ image_entries = <<>>
    /\ dest = Absent
    /\ dest_before = Absent
    /\ result = "none"
    /\ xml = <<>>
    /\ win = NewWindow({})
    /\ config = DefaultConfig
    /\ snapshots = <<>>
    /\ odt_files = NoFiles
    /\ dialog = NoDialog
    /\ odt_calls = 0
    /\ StoresIdle

\* _create_content_xml(content, _process_images(images), temp_path)
GenerateContent ==
    /\ pc = "input"
    /\ pc' = "generated"
    /\ image_entries' = ProcessImages(images)
    /\ xml' = ContentXml(content, ProcessImages(images), now)
    /\ UNCHANGED <<content, images, now, temp, temp_exists, dest, dest_before,
                   result, winVars>>

NextContent == FillForm \/ GenerateContent

SpecContent == InitIdle /\ [][NextContent]_vars

(***************************************************************************)
(* Reading a generated content.xml                                          *)
(***************************************************************************)
Generated == pc = "generated"

Positions(doc, Test(_)) == {i \in 1..Len(doc) : Test(doc[i])}

IsEvidenceHeading(e) == e.tag = "p" /\ e.label = <<"Evidence:">>
IsPageBreak(e) == e.tag = "p" /\ e.style = "PageBreak"
IsFrame(e) == e.tag = "frame"
IsRealName(e) == e.tag = "p" /\ e.label = <<"Scammers real name:">>
IsAmount(e) == e.tag = "p" /\ e.label = <<"Fee/Amount:">>
IsRemarksHeading(e) == e.tag = "p" /\ e.label = <<"Remarks:">>
IsPaymentsHeading(e) == e.tag = "p" /\ e.label = <<"Other payment methods:">>
IsBanksHeading(e) == e.tag = "p" /\ e.text = <<"BANK ACCOUNTS">> /\ e.style = "P1BoldUnderline"

BankLabel(i) == <<"Bank Account " \o ToString(i) \o ":">>
IsBankBlock(e) == e.tag = "p" /\ \E i \in 1..(MaxEdits + 1) : e.label = BankLabel(i)
IsPaymentBlock(e) == e.tag = "p" /\ e.style = "ListBullet" /\ Len(e.label) > 0
IsBlockHeader(e) == IsBankBlock(e) \/ IsPaymentBlock(e)

\* the labels of the payment sub-blocks of the document, in document order
BlockLabels(doc) ==
    LET hs == SelectSeq(doc, IsBlockHeader) IN [i \in 1..Len(hs) |-> hs[i].label]

\* raw markup characters in character data make the document ill-formed
RawMarkup == {"&", "<"}
TextWellFormed(t) == \A i \in 1..Len(t) : t[i] \notin RawMarkup
WellFormed(doc) ==
    \A i \in 1..Len(doc) : TextWellFormed(doc[i].text) /\ TextWellFormed(doc[i].label)

\* some (name, data) pair of the input carries non-empty bytes
SomeImageBytes == \E i \in 1..ImageCount(images) :
                      FlattenImages(images)[i].data.kind \in {"jpeg", "junk"}

BankRecords == IF Has(content, "bank_info") THEN content["bank_info"].v ELSE <<>>
PaymentRecords == IF Has(content, "other_payments") THEN content["other_payments"].v ELSE <<>>

(***************************************************************************)
(* Claims about content.xml (SpecContent)                                   *)
(***************************************************************************)

\* C5: content.xml holds exactly one frame per staged image, referencing
\* Pictures/image_<index>.jpg, with the entry's width and height and the original
\* filename as caption, whatever the category of the image.
C5_OneFramePerStagedImage ==
    Generated =>
        \A i \in 1..Len(image_entries) :
            Cardinality({j \in 1..Len(xml) :
                /\ IsFrame(xml[j])
                /\ xml[j].href = "Pictures/" \o ImageFilename(image_entries[i].index)
                /\ xml[j].width = image_entries[i].width
                /\ xml[j].height = image_entries[i].height
                /\ xml[j].text = image_entries[i].name}) = 1

\* C6: user text is escaped when written, so content.xml is well-formed even when
\* a value or an image name holds & or <.
C6_ContentWellFormed == Generated => WellFormed(xml)

\* C7: the Evidence page break and heading are present iff scammer_names is a
\* non-empty list, scammer_real_name is non-empty or an image was staged; without
\* them nothing of the Evidence section is emitted.
C7_EvidenceIff ==
    Generated =>
        LET shown == \/ (Has(content, "scammer_names")
                         /\ content["scammer_names"].kind = "list"
                         /\ Len(content["scammer_names"].v) > 0)
                     \/ (Has(content, "scammer_real_name")
                         /\ Len(content["scammer_real_name"].v) > 0)
                     \/ SomeImageBytes
        IN  /\ shown <=> Positions(xml, IsEvidenceHeading) # {}
            /\ shown <=> Positions(xml, IsPageBreak) # {}
            /\ ~shown => Positions(xml, IsFrame) \cup Positions(xml, IsRealName) = {}

C7_Witness ==
    /\ Generated
    /\ Has(content, "scammer_real_name")
    /\ ~Has(content, "scammer_names")
    /\ ~SomeImageBytes
    /\ Positions(xml, IsEvidenceHeading) # {}

\* C8: n bank records and m other-payment records give the blocks "Bank Account 1"
\* .. "Bank Account n" in input order, then the m payment blocks labelled with their
\* types in input order.
C8_PaymentBlocks ==
    Generated =>
        BlockLabels(xml) =
            [i \in 1..Len(BankRecords) |-> BankLabel(i)]
            \o [j \in 1..Len(PaymentRecords) |-> PaymentRecords[j].type \o <<":">>]

C8_Witness ==
    /\ Generated
    /\ Len(BankRecords) = 2
    /\ BankRecords[1] # BankRecords[2]
    /\ Len(PaymentRecords) = 1
    /\ Len(BlockLabels(xml)) = 3

\* C9: with amount, bank_info and other_payments present, the Fee/Amount paragraph
\* precedes the first bank-account block.
C9_AmountBeforeBanks ==
    (Generated /\ Truthy(content, "amount") /\ Truthy(content, "bank_info")
        /\ Truthy(content, "other_payments")) =>
        \E a \in Positions(xml, IsAmount) : \A b \in Positions(xml, IsBankBlock) : a < b

\* C10: the Remarks section comes after the Payment section and, when the Evidence
\* section is emitted, after the Evidence heading and all image frames.
C10_RemarksTrailing ==
    (Generated /\ Truthy(content, "remarks")) =>
        \E r \in Positions(xml, IsRemarksHeading) :
            \A q \in Positions(xml, IsBlockHeader) \cup Positions(xml, IsAmount)
                     \cup Positions(xml, IsEvidenceHeading) \cup Positions(xml, IsFrame) :
                q < r

(***************************************************************************)
(* SpecOdt: ODTGenerator.create_odt, step by step, with I/O failures        *)
(***************************************************************************)
\* contents the document is assembled for in SpecOdt
OdtContents ==
    {EmptyContent,
     ("alias" :> List(<<<<"a">>>>)) @@ ("remarks" :> List(<<<<"r", "&">>>>))}

InitOdt ==
    /\ content \in OdtContents
    /\ images = <<>>
    /\ now = 1
    /\ pc = "input"
    /\ temp = <<>>
    /\ temp_exists = FALSE
    /\ image_entries = <<>>
    /\ dest \in {Absent, OldReport}
    /\ dest_before = dest
    /\ result = "none"
    /\ xml = <<>>
    /\ win = NewWindow({})
    /\ config = DefaultConfig
    /\ snapshots = <<>>
    /\ odt_files = NoFiles
    /\ dialog = NoDialog
    /\ odt_calls = 0
    /\ StoresIdle

TempHas(files, path) == \E i \in 1..Len(files) : files[i].path = path
TempBody(files, path) == files[CHOOSE i \in 1..Len(files) : files[i].path = path].body

Running == {"mkdirs", "images", "mimetype", "manifest", "content", "styles", "meta",
            "zip_open", "zip_write"}

\* entry of create_odt: the TemporaryDirectory is created
CallCreateOdt ==
    /\ pc = "input"
    /\ pc' = "mkdirs"
    /\ temp_exists' = TRUE
    /\ temp' = <<>>
    /\ dest_before' = dest
    /\ \E t \in now..MaxTime : now' = t
    /\ UNCHANGED <<content, images, image_entries, dest, result, xml, winVars>>

\* 1. Pictures/ and META-INF/ are created
Mkdirs ==
    /\ pc = "mkdirs"
    /\ pc' = "images"
    /\ UNCHANGED <<content, images, now, temp, temp_exists, image_entries, dest,
                   dest_before, result, xml, winVars>>

\* 2. _process_images: every image with data is written below Pictures/
ProcessImagesStep ==
    /\ pc = "images"
    /\ pc' = "mimetype"
    /\ image_entries' = ProcessImages(images)
    /\ temp' = temp \o StagedPictures(images)
    /\ UNCHANGED <<content, images, now, temp_exists, dest, dest_before, result, xml,
                   winVars>>

\* _create_mimetype
CreateMimetype ==
    /\ pc = "mimetype"
    /\ pc' = "manifest"
    /\ temp' = Append(temp, [path |-> "mimetype", body |-> MimetypeText])
    /\ UNCHANGED <<content, images, now, temp_exists, image_entries, dest, dest_before,
                   result, xml, winVars>>

\* _create_manifest
CreateManifest ==
    /\ pc = "manifest"
    /\ pc' = "content"
    /\ temp' = Append(temp, [path |-> "META-INF/manifest.xml",
                             body |-> Manifest(image_entries)])
    /\ UNCHANGED <<content, images, now, temp_exists, image_entries, dest, dest_before,
                   result, xml, winVars>>

\* _create_content_xml
CreateContentXml ==
    /\ pc = "content"
    /\ pc' = "styles"
    /\ xml' = ContentXml(content, image_entries, now)
    /\ temp' = Append(temp, [path |-> "content.xml",
                             body |-> ContentXml(content, image_entries, now)])
    /\ UNCHANGED <<content, images, now, temp_exists, image_entries, dest, dest_before,
                   result, winVars>>

\* _create_styles_xml
CreateStylesXml ==
    /\ pc = "styles"
    /\ pc' = "meta"
    /\ temp' = Append(temp, [path |-> "styles.xml", body |-> "styles"])
    /\ UNCHANGED <<content, images, now, temp_exists, image_entries, dest, dest_before,
                   result, xml, winVars>>

\* _create_meta_xml: dc:date and meta:creation-date are datetime.now()
CreateMetaXml ==
    /\ pc = "meta"
    /\ pc' = "zip_open"
    /\ temp' = Append(temp, [path |-> "meta.xml", body |-> now])
    /\ UNCHANGED <<content, images, now, temp_exists, image_entries, dest, dest_before,
                   result, xml, winVars>>

\* the plan with mimetype written with the archive's default compression
ZipPlanDeflatedMimetype(files, entries) ==
    <<[name |-> "mimetype", compress |-> "DEFLATED", body |-> TempBody(files, "mimetype")],
      [name |-> "content.xml", compress |-> "DEFLATED",
       body |-> TempBody(files, "content.xml")]>>

\* the files _create_odt_zip writes, in its order, with their compression
ZipPlan(files, entries) ==
    <<[name |-> "mimetype", compress |-> "STORED", body |-> TempBody(files, "mimetype")]>>
    \o [i \in 1..Len(SelectSeq(<<"content.xml", "styles.xml", "meta.xml">>,
                               LAMBDA f : TempHas(files, f))) |->
           LET f == SelectSeq(<<"content.xml", "styles.xml", "meta.xml">>,
                              LAMBDA g : TempHas(files, g))[i]
           IN  [name |-> f, compress |-> "DEFLATED", body |-> TempBody(files, f)]]
    \o When(TempHas(files, "META-INF/manifest.xml"),
            <<[name |-> "META-INF/manifest.xml", compress |-> "DEFLATED",
               body |-> TempBody(files, "META-INF/manifest.xml")]>>)
    \o [i \in 1..Len(SelectSeq(entries,
                               LAMBDA e : TempHas(files, "Pictures/" \o e.filename))) |->
           LET e == SelectSeq(entries,
                              LAMBDA g : TempHas(files, "Pictures/" \o g.filename))[i]
           IN  [name |-> "Pictures/" \o e.filename, compress |-> "DEFLATED",
                body |-> TempBody(files, "Pictures/" \o e.filename)]]

\* zipfile.ZipFile(output_path, 'w'): the destination is created or truncated
ZipOpen ==
    /\ pc = "zip_open"
    /\ pc' = "zip_write"
    /\ dest' = [exists |-> TRUE, entries |-> <<>>, complete |-> FALSE]
    /\ UNCHANGED <<content, images, now, temp, temp_exists, image_entries, dest_before,
                   result, xml, winVars>>

\* odt_zip.write(...) of the next file of the plan
ZipWrite ==
    /\ pc = "zip_write"
    /\ Len(dest.entries) < Len(ZipPlan(temp, image_entries))
    /\ dest' = [dest EXCEPT !.entries =
                   Append(@, ZipPlan(temp, image_entries)[Len(dest.entries) + 1])]
    /\ UNCHANGED <<content, images, now, pc, temp, temp_exists, image_entries,
                   dest_before, result, xml, winVars>>

\* the staging directory left to itself when the with block is left
KeepTemporaryDirectory(files, exists) == [files |-> files, exists |-> exists]

\* tempfile.TemporaryDirectory().__exit__: the directory and all it holds are removed
TemporaryDirectoryExit(files, exists) == [files |-> <<>>, exists |-> FALSE]

\* the archive is closed, the temporary directory is removed, create_odt returns True
ReturnTrue ==
    /\ pc = "zip_write"
    /\ Len(dest.entries) = Len(ZipPlan(temp, image_entries))
    /\ dest' = [dest EXCEPT !.complete = TRUE]
    /\ pc' = "returned"
    /\ result' = TRUE
    /\ temp' = TemporaryDirectoryExit(temp, temp_exists).files
    /\ temp_exists' = TemporaryDirectoryExit(temp, temp_exists).exists
    /\ UNCHANGED <<content, images, now, image_entries, dest_before, xml, winVars>>

\* the file left at output_path when an exception leaves _create_odt_zip
DestAfterFailure(d) == d

\* any step raises (I/O error, disk full, permission denied): the exception is caught,
\* the temporary directory is removed, create_odt returns False
Fail ==
    /\ pc \in Running
    /\ pc' = "returned"
    /\ result' = FALSE
    /\ temp' = TemporaryDirectoryExit(temp, temp_exists).files
    /\ temp_exists' = TemporaryDirectoryExit(temp, temp_exists).exists
    /\ dest' = DestAfterFailure(dest)
    /\ UNCHANGED <<content, images, now, image_entries, dest_before, xml, winVars>>

CreateOdt ==
    \/ CallCreateOdt
    \/ Mkdirs
    \/ ProcessImagesStep
    \/ CreateMimetype
    \/ CreateManifest
    \/ CreateContentXml
    \/ CreateStylesXml
    \/ CreateMetaXml
    \/ ZipOpen
    \/ ZipWrite
    \/ ReturnTrue
    \/ Fail

NextOdt ==
    \/ \E cat \in ImageCategories : \E img \in ImageSamples : AddImage(cat, img)
    \/ CreateOdt

SpecOdt == InitOdt /\ [][NextOdt]_vars

(***************************************************************************)
(* Claims about the archive (SpecOdt)                                       *)
(***************************************************************************)
Returned == pc = "returned"

ArchiveNames(d) == {d.entries[i].name : i \in 1..Len(d.entries)}

FixedArchiveNames ==
    {"mimetype", "content.xml", "styles.xml", "meta.xml", "META-INF/manifest.xml"}

\* the Pictures/ entries of the archive
ArchivePictures(d) == ArchiveNames(d) \ FixedArchiveNames

\* the manifest:full-path values of the archive's manifest that name pictures
ManifestPictures(d) ==
    LET m == d.entries[CHOOSE i \in 1..Len(d.entries) :
                           d.entries[i].name = "META-INF/manifest.xml"].body
    IN  {m[i] : i \in 1..Len(m)} \ {FixedManifestPaths[i] : i \in 1..Len(FixedManifestPaths)}

\* number of (name, data) pairs of the input with non-empty bytes
BytesCount ==
    Cardinality({i \in 1..ImageCount(images) :
                    FlattenImages(images)[i].data.kind \in {"jpeg", "junk"}})

\* C1: when create_odt returns True the archive's first entry is mimetype, stored
\* without compression, with content application/vnd.oasis.opendocument.text.
C1_MimetypeFirstStored ==
    (Returned /\ result = TRUE) =>
        /\ dest.exists
        /\ Len(dest.entries) >= 1
        /\ dest.entries[1].name = "mimetype"
        /\ dest.entries[1].compress = "STORED"
        /\ dest.entries[1].body = "application/vnd.oasis.opendocument.text"

C1_Witness ==
    /\ Returned
    /\ result = TRUE
    /\ Len(image_entries) = 2
    /\ Len(dest.entries) = 7

\* C3: when create_odt returns False the file at output_path is what it was before
\* the call (still absent, or the earlier file unchanged).
C3_NoPartialOutput == (Returned /\ result = FALSE) => dest = dest_before

\* C4: the staged entries carry the indices 1..n in order, n being the number of
\* pairs with non-empty bytes, and the Pictures/ paths of the manifest are exactly
\* the Pictures/ entries of the archive.
C4_IndicesAndManifest ==
    /\ (pc \in {"mimetype", "manifest", "content", "styles", "meta", "zip_open",
                "zip_write"} \/ (Returned /\ result = TRUE)) =>
          (/\ Len(image_entries) = BytesCount
           /\ \A i \in 1..Len(image_entries) :
                 (image_entries[i].index = i
                  /\ image_entries[i].filename = "image_" \o ToString(i) \o ".jpg"))
    /\ (Returned /\ result = TRUE) =>
          (/\ ManifestPictures(dest) = ArchivePictures(dest)
           /\ Cardinality(ArchivePictures(dest)) = BytesCount)

C4_Witness ==
    /\ Returned
    /\ result = TRUE
    /\ ImageCount(images) = 2
    /\ FlattenImages(images)[1].data.kind = "none"
    /\ BytesCount = 1
    /\ ArchivePictures(dest) = {"Pictures/image_1.jpg"}

(***************************************************************************)
(* SpecExport: the window's export handler                                  *)
(***************************************************************************)
MaxNumber == 2      \* report numbers the operator may enter in the prompt
MaxCalls == 2       \* runs of create_odt started by the window

\* numbering formats of ReportNumberDialog: simple, year + 3 digits, a custom text
\* that str.format cannot fill
Formats == {"{number}", "Y-{number:03d}", "{nr}"}

Pad3(n) ==
    IF n < 10 THEN "00" \o ToString(n)
    ELSE IF n < 100 THEN "0" \o ToString(n) ELSE ToString(n)

\* report_format.format(number=n); the bare except falls back to str(n)
FormattedNumber(fmt, n) ==
    CASE fmt = "{number}" -> ToString(n)
      [] fmt = "Y-{number:03d}" -> "Y-" \o Pad3(n)
      [] OTHER -> ToString(n)

\* _validate_form: every required field of the template is filled
ValidForm(w, form) == \A k \in w.required : Truthy(form, k)

WithDefault(c, k, v) == IF Truthy(c, k) THEN c ELSE (k :> v) @@ c

\* template keys of user-created templates (template_key.startswith('custom-'))
CustomKeys == {"custom-x"}
IsCustom(key) == key \in CustomKeys

\* template['name'] and template['description']
TemplateName(key) == IF IsCustom(key) THEN <<"X">> ELSE <<"Advance-Fee Scam">>
TemplateDescription(key) ==
    IF IsCustom(key) THEN <<"D">> ELSE <<"Fee to be paid to receive an inheritance">>

\* template['fields'] in file order: the built-in template, and a custom template as
\* the template editor saves it (type, summary, remarks first, then the chosen fields)
TemplateFieldOrder(key) ==
    IF IsCustom(key)
    THEN <<"type", "summary", "remarks", "alias", "started", "amount", "passport_ids">>
    ELSE <<"type", "summary", "alias", "emails", "websites", "social_media", "ips",
           "locations", "other_info", "started", "bank_info", "other_payments", "amount",
           "scammer_names", "passport_ids", "scammer_photos", "victim_ids", "others",
           "remarks">>

TemplateFields(key) ==
    {TemplateFieldOrder(key)[i] : i \in 1..Len(TemplateFieldOrder(key))}

FieldIndex(key, k) ==
    CHOOSE i \in 1..Len(TemplateFieldOrder(key)) : TemplateFieldOrder(key)[i] = k

\* field_def.get('default') of a text field: only the built-in type and summary have one
HasTextDefault(key, k) == ~IsCustom(key) /\ k \in {"type", "summary"}
TextDefault(key, k) == IF k = "type" THEN TemplateName(key) ELSE TemplateDescription(key)

\* dates of the QDateEdit; Today is QDate.currentDate()
Today == [y |-> 2026, m |-> 11, d |-> 1]
DateSamples == {[y |-> 1950, m |-> 1, d |-> 2]}

Pad2(n) == IF n < 10 THEN "0" \o ToString(n) ELSE ToString(n)

\* widget.date().toString("MM/dd/yy")
FormatDate(date) == <<Pad2(date.m), "/", Pad2(date.d), "/", Pad2(date.y % 100)>>

IsTwoDigits(tok) == \E n \in 0..99 : Pad2(n) = tok
TwoDigits(tok) == CHOOSE n \in 0..99 : Pad2(n) = tok

\* datetime.strptime(date_str, "%m/%d/%y") succeeds
ParsesAsDate(t) ==
    /\ Len(t) = 5
    /\ t[2] = "/" /\ t[4] = "/"
    /\ IsTwoDigits(t[1]) /\ IsTwoDigits(t[3]) /\ IsTwoDigits(t[5])
    /\ TwoDigits(t[1]) \in 1..12
    /\ TwoDigits(t[3]) \in 1..31

\* strptime's %y: 00..68 are 2000..2068, 69..99 are 1969..1999
ParseDate(t) ==
    [y |-> IF TwoDigits(t[5]) <= 68 THEN 2000 + TwoDigits(t[5]) ELSE 1900 + TwoDigits(t[5]),
     m |-> TwoDigits(t[1]),
     d |-> TwoDigits(t[3])]

\* what a widget yields for the value the form holds: .strip() of a text, the
\* non-empty stripped entries of a list, the payments with non-empty stripped details
CollectValue(k, val) ==
    IF val.kind = "str" THEN Str(Strip(val.v))
    ELSE IF k = "other_payments"
    THEN List(SelectSeq([i \in 1..Len(val.v) |-> [val.v[i] EXCEPT !.details = Strip(@)]],
                        LAMBDA e : e.details # <<>>))
    ELSE List(SelectSeq([i \in 1..Len(val.v) |-> Strip(val.v[i])], LAMBDA e : e # <<>>))

\* _collect_data: only non-empty values are kept, an empty text field with a default
\* yields the default, the date widget always yields a date
CollectData(w, form) ==
    LET key == w.template_key
        kept == {k \in DOMAIN form \cap TemplateFields(key) : CollectValue(k, form[k]).v # <<>>}
        c0 == [k \in kept |-> CollectValue(k, form[k])]
        c1 == IF HasTextDefault(key, "type")
              THEN WithDefault(c0, "type", Str(TextDefault(key, "type"))) ELSE c0
        c2 == IF HasTextDefault(key, "summary")
              THEN WithDefault(c1, "summary", Str(TextDefault(key, "summary"))) ELSE c1
    IN  IF "started" \in TemplateFields(key)
        THEN WithDefault(c2, "started", Str(FormatDate(Today))) ELSE c2

\* a variant that treats every export as a new report
IsModificationNever(w, snaps) == FALSE

\* the first "is this a modification" test of _export_report
IsModification(w, snaps) ==
    /\ w.last_saved_json_path # ""
    /\ w.last_saved_json_path \in DOMAIN snaps
    /\ w.report_number # 0
    /\ w.report_format # ""

\* the second test, made once the save path is known
IsModificationAtSave(w) == w.last_saved_json_path # ""

\* update_report_folder_from_dialog, update_report_number, set_last_template_key
ConfigAfterSave(cfg, w, path) ==
    LET c1 == [cfg EXCEPT !.last_used_folder = path.dir, !.report_folder = path.dir]
    IN  IF IsModificationAtSave(w) THEN c1
        ELSE [c1 EXCEPT !.last_report_number = w.report_number,
                        !.numbering_format = w.report_format,
                        !.last_template_key = w.template_key]

\* parameters of ODTGenerator.create_odt
CreateOdtParameters == {"content", "output_path", "images"}

\* keyword arguments of the call in _export_report
ExportCallKeywords == {"content", "output_path", "images", "template_key"}

\* Python binds a call only if every keyword names a parameter (else TypeError)
CallBinds(keywords, parameters) == keywords \subseteq parameters

\* everything create_odt stages for (c, imgs) at clock reading t
AllStaged(c, imgs, t) ==
    StagedPictures(imgs)
    \o <<[path |-> "mimetype", body |-> MimetypeText],
         [path |-> "META-INF/manifest.xml", body |-> Manifest(ProcessImages(imgs))],
         [path |-> "content.xml", body |-> ContentXml(c, ProcessImages(imgs), t)],
         [path |-> "styles.xml", body |-> "styles"],
         [path |-> "meta.xml", body |-> t]>>

\* the archive of a call that succeeds
Archive(c, imgs, t) ==
    [exists |-> TRUE, complete |-> TRUE,
     entries |-> ZipPlan(AllStaged(c, imgs, t), ProcessImages(imgs))]

\* the (return value, file at output_path) pairs of create_odt called with d at the path
CreateOdtOutcomes(c, imgs, d) ==
    {[result |-> TRUE, dest |-> Archive(c, imgs, t)] : t \in 1..MaxTime}
    \cup {[result |-> FALSE, dest |-> d]}
    \cup UNION {{[result |-> FALSE,
                  dest |-> [exists |-> TRUE, complete |-> FALSE,
                            entries |-> SubSeq(Archive(c, imgs, t).entries, 1, k)]] :
                    k \in 0..(Len(Archive(c, imgs, t).entries) - 1)} : t \in 1..MaxTime}

\* image fields of the template, in field order
TemplateImageKeys == <<"passport_ids", "scammer_photos", "victim_ids", "others">>

\* images_data of _save_report_data_to_json: only the pairs with bytes are kept
SnapshotImages(imgs) ==
    [i \in 1..Len(imgs) |->
        [category |-> imgs[i].category,
         list |-> SelectSeq(imgs[i].list, LAMBDA x : HasData(x.data))]]

\* save_data of _save_report_data_to_json
Snapshot(data, imgs, w, path) ==
    [report_data |-> data, images |-> SnapshotImages(imgs),
     template_key |-> w.template_key, report_number |-> w.report_number,
     report_format |-> w.report_format, original_odt_path |-> path]

Bundle(w, c, i, cfg, sn, files, d, n) ==
    [win |-> w, content |-> c, images |-> i, config |-> cfg, snapshots |-> sn,
     odt_files |-> files, dialog |-> d, odt_calls |-> n]

\* a variant that empties the widgets and keeps the report's number, format and paths
ClearFormFieldsOnly(b) ==
    [b EXCEPT !.content = IF IsCustom(b.win.template_key)
                          THEN [k \in {"type", "summary"}
                                        \cap TemplateFields(b.win.template_key) |->
                                    Str(TextDefault(b.win.template_key, k))]
                          ELSE EmptyContent,
              !.images = <<>>]

\* _clear_form: every widget is emptied; for a custom template the type and summary
\* fields are filled again with the template's name and description
ClearForm(b) ==
    LET key == b.win.template_key
        refilled == [k \in {"type", "summary"} \cap TemplateFields(key) |->
                        Str(TextDefault(key, k))]
    IN  [b EXCEPT !.content = IF IsCustom(key) THEN refilled ELSE EmptyContent,
                  !.images = <<>>,
                  !.win = [@ EXCEPT !.report_number = 0, !.report_format = "",
                                    !.last_saved_json_path = "",
                                    !.original_odt_path = NoPath]]

\* a snapshot file that json.load cannot parse
Unparsable == [unparsable |-> TRUE]

\* an entry of an image list that is not a JSON object: img_dict.get raises
NotADict == [notadict |-> TRUE]

\* the image lists the snapshot stores under the field k
ImageListsOf(snap, k) == SelectSeq(snap.images, LAMBDA e : e.category = k)

\* the loop over images_data[key] raises for the field k
ImageFieldRaises(snap, k) ==
    \E i \in 1..Len(ImageListsOf(snap, k)) :
        \E j \in 1..Len(ImageListsOf(snap, k)[i].list) :
            ImageListsOf(snap, k)[i].list[j] = NotADict

\* the lists _load_report_from_json hands to the image widgets of the fields keys
LoadedImages(snap) ==
    LET found(k) == SelectSeq(snap.images, LAMBDA e : e.category = k /\ Len(e.list) > 0)
        keys == SelectSeq(TemplateImageKeys, LAMBDA k : Len(found(k)) > 0)
    IN  [i \in 1..Len(keys) |-> found(keys[i])[1]]

\* the value the widget of the field k holds after it was set from the snapshot's val;
\* a list stands for "left as _clear_form made it"
LoadsField(k, val) ==
    CASE k = "started" -> val.kind = "str" /\ ParsesAsDate(val.v)
      [] k \in {"type", "summary", "amount"} -> val.kind = "str"
      [] k = "bank_info" -> FALSE
      [] OTHER -> val.kind = "list"

LoadedValue(k, val) ==
    IF k = "started" THEN Str(FormatDate(ParseDate(val.v))) ELSE val

\* _load_report_from_json(json_path)
LoadReportFromJson(b, json_path) ==
    IF json_path \notin DOMAIN b.snapshots
    THEN [b EXCEPT !.dialog.outcome = "file_not_found"]
    ELSE IF b.snapshots[json_path] = Unparsable
    THEN [b EXCEPT !.dialog.outcome = "error_loading"]
    ELSE LET snap == b.snapshots[json_path]
             key == b.win.template_key
             order == TemplateFieldOrder(key)
             cleared == ClearForm(b)
             raising == {i \in 1..Len(order) : ImageFieldRaises(snap, order[i])}
             stop == IF raising = {} THEN Len(order) + 1
                     ELSE CHOOSE i \in raising : \A i2 \in raising : i <= i2
             reached == {order[i] : i \in 1..(stop - 1)}
             keys == {k \in DOMAIN snap.report_data \cap reached :
                         LoadsField(k, snap.report_data[k])}
             banks == IF raising = {} /\ "bank_info" \in TemplateFields(key)
                         /\ "bank_info" \in DOMAIN snap.report_data
                         /\ snap.report_data["bank_info"].kind = "list"
                      THEN {"bank_info"} ELSE {}
             loaded == [k \in keys \cup banks |-> LoadedValue(k, snap.report_data[k])]
             shown == SelectSeq(LoadedImages(snap), LAMBDA e : e.category \in reached)
         IN  [cleared EXCEPT
                 !.win = [@ EXCEPT !.report_number = snap.report_number,
                                   !.report_format = snap.report_format,
                                   !.original_odt_path = snap.original_odt_path,
                                   !.last_saved_json_path = json_path],
                 !.content = loaded @@ cleared.content,
                 !.images = shown,
                 !.dialog.outcome = IF raising = {} THEN "report_loaded"
                                    ELSE "error_loading"]

\* the success branch: snapshot written, success dialog, its three buttons
AfterSuccess(b, data, path) ==
    LET json_path == IF b.win.last_saved_json_path # ""
                        /\ b.win.last_saved_json_path \in DOMAIN b.snapshots
                     THEN b.win.last_saved_json_path
                     ELSE path.stem
        saved == [b EXCEPT
                     !.snapshots = (json_path :> Snapshot(data, b.images, b.win, path)) @@ @,
                     !.win.last_saved_json_path = json_path,
                     !.dialog.outcome = "success"]
    IN  {saved,
         [ClearForm(saved) EXCEPT !.dialog.outcome = "new_report"],
         LoadReportFromJson(saved, json_path)}

\* report_data of _export_report: the collected data and the formatted report number
ReportData(w, form) ==
    IF w.report_number # 0 /\ w.report_format # ""
    THEN ("report_number" :> Str(<<FormattedNumber(w.report_format, w.report_number)>>))
         @@ CollectData(w, form)
    ELSE CollectData(w, form)

\* from the chosen save path to the end of _export_report
AfterSave(w, d, path) ==
    LET cfg1 == ConfigAfterSave(config, w, path)
        data == ReportData(w, content)
        d1 == [d EXCEPT !.path_chosen = TRUE]
        b1 == Bundle(w, content, images, cfg1, snapshots, odt_files, d1, odt_calls)
    IN  IF ~CallBinds(ExportCallKeywords, CreateOdtParameters)
        THEN {[b1 EXCEPT !.dialog.outcome = "failed_to_save"]}
        ELSE UNION {
               IF out.result
               THEN AfterSuccess([b1 EXCEPT !.odt_files[path] = out.dest,
                                            !.odt_calls = @ + 1,
                                            !.dialog.odt_entered = TRUE], data, path)
               ELSE {[b1 EXCEPT !.odt_files[path] = out.dest,
                                !.odt_calls = @ + 1,
                                !.dialog.odt_entered = TRUE,
                                !.dialog.outcome = "failed_to_generate"]}
               : out \in CreateOdtOutcomes(data, images, odt_files[path])}

\* from the report number on: the save dialog is cancelled or returns a path
AfterNumber(w, d) ==
    {Bundle(w, content, images, config, snapshots, odt_files,
            [d EXCEPT !.outcome = "save_cancelled"], odt_calls)}
    \cup UNION {AfterSave(w, d, path) : path \in OdtPaths}

\* every way one run of _export_report can end
ExportResults ==
    IF ~ValidForm(win, content)
    THEN {Bundle(win, content, images, config, snapshots, odt_files,
                 [NoDialog EXCEPT !.outcome = "validation_error"], odt_calls)}
    ELSE IF IsModification(win, snapshots)
    THEN AfterNumber(win, NoDialog)
    ELSE LET d == [NoDialog EXCEPT !.prompted = TRUE,
                                   !.default_number = config.last_report_number + 1]
         IN  {Bundle(win, content, images, config, snapshots, odt_files,
                     [d EXCEPT !.outcome = "number_cancelled"], odt_calls)}
             \cup UNION {AfterNumber([win EXCEPT !.report_number = n, !.report_format = f],
                                     [d EXCEPT !.accepted_number = n]) :
                            n \in 1..MaxNumber, f \in Formats}

\* _export_report, with the operator's answers to its dialogs
ExportReport ==
    /\ pc = "input"
    /\ odt_calls < MaxCalls
    /\ \E b \in ExportResults :
          /\ win' = b.win
          /\ content' = b.content
          /\ images' = b.images
          /\ config' = b.config
          /\ snapshots' = b.snapshots
          /\ odt_files' = b.odt_files
          /\ dialog' = b.dialog
          /\ odt_calls' = b.odt_calls
    /\ UNCHANGED <<now, pc, temp, temp_exists, image_entries, dest, dest_before, result,
                   xml, storeVars>>

\* the operator edits the form
EditForm ==
    /\ ContentSize(content) + ImageCount(images) < MaxEdits
    /\ \/ \E t \in Samples("alias") : AppendItem("alias", t)
       \/ \E t \in Samples("amount") : SetText("amount", t)
       \/ \E img \in ImageSamples : AddImage("passport_ids", img)

InitExport ==
    /\ content = EmptyContent
    /\ images = <<>>
    /\ now = 1
    /\ pc = "input"
    /\ temp = <<>>
    /\ temp_exists = FALSE
    /\ image_entries = <<>>
    /\ dest = Absent
    /\ dest_before = Absent
    /\ result = "none"
    /\ xml = <<>>
    /\ win \in {NewWindow({}), NewWindow({"alias"})}
    /\ config = DefaultConfig
    /\ snapshots = <<>>
    /\ odt_files = NoFiles
    /\ dialog = NoDialog
    /\ odt_calls = 0
    /\ StoresIdle

NextExport == EditForm \/ ExportReport

SpecExport == InitExport /\ [][NextExport]_vars

(***************************************************************************)
(* Claims about the export handler (SpecExport)                             *)
(***************************************************************************)

\* C2: when the form validates, a report number is available and a save path was
\* chosen, create_odt is executed; the export ends in success or in the generator's
\* own failure report, never in "Failed to save report" without an I/O failure.
C2_ExportRunsCreateOdt ==
    dialog.path_chosen =>
        /\ dialog.odt_entered
        /\ dialog.outcome \in {"success", "new_report", "report_loaded",
                              "failed_to_generate"}

\* the error dialogs of the else branch and of the except branch of _export_report
FailedOutcomes == {"failed_to_save", "failed_to_generate"}

\* C27: a new-report export that fails after the save path was chosen leaves
\* last_report_number and numbering_format of the configuration file as they were
\* before the attempt: a failed export consumes no report number.
C27_FailedExportKeepsNumber ==
    [][(dialog'.prompted /\ dialog'.path_chosen /\ dialog'.outcome \in FailedOutcomes)
          => /\ config'.last_report_number = config.last_report_number
             /\ config'.numbering_format = config.numbering_format]_vars

(***************************************************************************)
(* The snapshot methods of the window, called as the branch of              *)
(* _export_report after "if success:" and the success dialog call them      *)
(***************************************************************************)
\* a window opened with a custom template; _build_main_info_tab fills type and summary
CustomWindow == [NewWindow({}) EXCEPT !.template_key = "custom-x"]

\* the form of a window just opened
NewForm(w) ==
    ClearForm(Bundle(w, EmptyContent, <<>>, DefaultConfig, <<>>, NoFiles, NoDialog, 0)).content

\* the window's state becomes the bundle b
Becomes(b) ==
    /\ win' = b.win
    /\ content' = b.content
    /\ images' = b.images
    /\ config' = b.config
    /\ snapshots' = b.snapshots
    /\ odt_files' = b.odt_files
    /\ dialog' = b.dialog
    /\ odt_calls' = b.odt_calls
    /\ UNCHANGED <<now, pc, temp, temp_exists, image_entries, dest, dest_before, result,
                   xml, storeVars>>

Here(d) == Bundle(win, content, images, config, snapshots, odt_files, d, odt_calls)

\* the entry the operator types into the alias list (collecting strips it)
AliasEntries == {<<" ", "b">>}

\* the operator adds an entry to the alias list
EditAlias ==
    /\ pc = "input"
    /\ ContentSize(content) + ImageCount(images) < MaxEdits
    /\ ~Has(content, "alias")
    /\ \E t \in AliasEntries :
          Becomes([Here(NoDialog) EXCEPT !.content = ("alias" :> List(<<t>>)) @@ content])

\* the operator picks a date, adds a cropped image (the crop dialog hands over JPEG
\* bytes), or erases the "Type of scam" field
EditOther ==
    /\ pc = "input"
    /\ \/ /\ ContentSize(content) + ImageCount(images) < MaxEdits
          /\ ~Has(content, "started")
          /\ \E date \in DateSamples :
                Becomes([Here(NoDialog) EXCEPT
                    !.content = ("started" :> Str(FormatDate(date))) @@ content])
       \/ /\ ContentSize(content) + ImageCount(images) < MaxEdits
          /\ images = <<>>
          /\ \E img \in {i \in ImageSamples : i.data.kind = "jpeg"} :
                Becomes([Here(NoDialog) EXCEPT
                    !.images = <<[category |-> "passport_ids", list |-> <<img>>]>>])
       \/ /\ Has(content, "type")
          /\ Becomes([Here(NoDialog) EXCEPT
                !.content = [k \in DOMAIN content \ {"type"} |-> content[k]]])

\* a new report can still get a number
MaySave ==
    /\ pc = "input"
    /\ odt_calls < MaxCalls
    /\ ValidForm(win, content)
    /\ IsModification(win, snapshots) \/ config.last_report_number < MaxNumber

\* _export_report when ODTGenerator.create_odt returns True and the archive goes to
\* path: report number (prompted for a new report, the operator keeps the number and
\* the format offered), configuration update, the archive, the snapshot, and the
\* button pressed in the success dialog
SaveResults(path) ==
    LET modifying == IsModification(win, snapshots)
        w == IF modifying THEN win
             ELSE [win EXCEPT !.report_number = config.last_report_number + 1,
                              !.report_format = config.numbering_format]
        d == [NoDialog EXCEPT !.prompted = ~modifying,
                              !.default_number = IF modifying THEN 0
                                                 ELSE config.last_report_number + 1,
                              !.accepted_number = IF modifying THEN 0
                                                  ELSE config.last_report_number + 1,
                              !.path_chosen = TRUE,
                              !.odt_entered = TRUE]
        data == ReportData(w, content)
        b1 == Bundle(w, content, images, ConfigAfterSave(config, w, path), snapshots,
                     [odt_files EXCEPT ![path] = Archive(data, images, now)], d,
                     odt_calls + 1)
    IN  AfterSuccess(b1, data, path)

(***************************************************************************)
(* SpecRoundTrip: a report is edited, exported and re-opened with           *)
(* "Modify Report"; an amended report goes back to its original path        *)
(***************************************************************************)
InitRoundTrip ==
    /\ win \in {NewWindow({}), CustomWindow}
    /\ content = NewForm(win)
    /\ images = <<>>
    /\ now = 1
    /\ pc = "input"
    /\ temp = <<>>
    /\ temp_exists = FALSE
    /\ image_entries = <<>>
    /\ dest = Absent
    /\ dest_before = Absent
    /\ result = "none"
    /\ xml = <<>>
    /\ config = DefaultConfig
    /\ snapshots = <<>>
    /\ odt_files = NoFiles
    /\ dialog = NoDialog
    /\ odt_calls = 0
    /\ StoresIdle

SaveAndModify ==
    /\ MaySave
    /\ \E path \in (IF win.original_odt_path # NoPath THEN {win.original_odt_path}
                    ELSE OdtPaths) :
          \E b \in SaveResults(path) :
              /\ b.dialog.outcome = "report_loaded"
              /\ Becomes(b)

NextRoundTrip == EditAlias \/ EditOther \/ SaveAndModify

SpecRoundTrip == InitRoundTrip /\ [][NextRoundTrip]_vars

(***************************************************************************)
(* SpecSnapshot: reports are exported, re-opened and exported again, and    *)
(* snapshot files of the data folder are opened                             *)
(***************************************************************************)
\* a snapshot whose image list holds an entry that is not an object
MalformedSnapshot ==
    [report_data |-> ("report_number" :> Str(<<"2">>)) @@ ("alias" :> List(<<<<"m">>>>))
                     @@ ("remarks" :> List(<<<<"r">>>>)),
     images |-> <<[category |-> "passport_ids", list |-> <<NotADict>>]>>,
     template_key |-> "advance-fee", report_number |-> 2, report_format |-> "{number}",
     original_odt_path |-> [dir |-> "r", stem |-> "M"]]

\* a snapshot an earlier session wrote for report Y-007
EarlierSnapshot ==
    [report_data |-> ("report_number" :> Str(<<"Y-007">>))
                     @@ CollectData(NewWindow({}), ("alias" :> List(<<<<"v">>>>))),
     images |-> <<>>,
     template_key |-> "advance-fee", report_number |-> 7,
     report_format |-> "Y-{number:03d}",
     original_odt_path |-> [dir |-> "r", stem |-> "A"]]

\* snapshot files found in the data folder that this run did not write
ForeignSnapshots ==
    ("U" :> Unparsable) @@ ("M" :> MalformedSnapshot) @@ ("V" :> EarlierSnapshot)

\* configuration files an earlier session left
EarlierConfigs == {DefaultConfig, [DefaultConfig EXCEPT !.numbering_format = "Y-{number:03d}"]}

InitSnapshot ==
    /\ win = NewWindow({})
    /\ content = NewForm(win)
    /\ images = <<>>
    /\ now = 1
    /\ pc = "input"
    /\ temp = <<>>
    /\ temp_exists = FALSE
    /\ image_entries = <<>>
    /\ dest = Absent
    /\ dest_before = Absent
    /\ result = "none"
    /\ xml = <<>>
    /\ config \in EarlierConfigs
    /\ snapshots = ForeignSnapshots
    /\ odt_files = NoFiles
    /\ dialog = NoDialog
    /\ odt_calls = 0
    /\ StoresIdle

SaveReport ==
    /\ MaySave
    /\ \E path \in OdtPaths : \E b \in SaveResults(path) : Becomes(b)

\* _load_report_from_json(json_path) for a file name of the data folder
LoadReport ==
    /\ pc = "input"
    /\ \E json_path \in DOMAIN snapshots \cup {"missing"} :
          Becomes(LoadReportFromJson(Here(NoDialog), json_path))

\* _export_report for a report that has a snapshot
ModifyReport ==
    /\ win.last_saved_json_path # ""
    /\ ExportReport

NextSnapshot == EditAlias \/ SaveReport \/ LoadReport \/ ModifyReport

SpecSnapshot == InitSnapshot /\ [][NextSnapshot]_vars

(***************************************************************************)
(* Claims about snapshots (SpecRoundTrip, SpecSnapshot)                     *)
(***************************************************************************)
\* report_data as _collect_data returned it, before _export_report added the number
CollectedPart(data) == [k \in DOMAIN data \ {"report_number"} |-> data[k]]

\* a report is open: _load_report_from_json restored it from a snapshot that exists
ReportLoaded ==
    /\ win.original_odt_path # NoPath
    /\ win.last_saved_json_path \in DOMAIN snapshots
    /\ win.report_number # 0
    /\ win.report_format # ""

LoadFailures == {"file_not_found", "error_loading"}

\* C11: round trip.  Right after a snapshot saved from the form was loaded, collecting
\* the form again yields the report_data the snapshot holds (field for field), the
\* image lists it holds, and the window's report_number and report_format are the
\* stored ones.
C11_RoundTrip ==
    dialog.outcome = "report_loaded" =>
        LET snap == snapshots[win.last_saved_json_path]
        IN  /\ CollectData(win, content) = CollectedPart(snap.report_data)
            /\ images = snap.images
            /\ win.report_number = snap.report_number
            /\ win.report_format = snap.report_format

\* C12: once a report was loaded from its snapshot, no step of the window (in
\* particular no export) prompts for a report number, changes last_report_number or
\* numbering_format of the configuration file, or changes the number and the format
\* its snapshot stores; a snapshot written again carries the same formatted number.
C12_ModifyKeepsNumber ==
    [][ReportLoaded =>
          LET j == win.last_saved_json_path
          IN  /\ ~dialog'.prompted
              /\ config'.last_report_number = config.last_report_number
              /\ config'.numbering_format = config.numbering_format
              /\ j \in DOMAIN snapshots'
              /\ snapshots'[j].report_number = win.report_number
              /\ snapshots'[j].report_format = win.report_format
              /\ snapshots'[j].report_data["report_number"]
                    = snapshots[j].report_data["report_number"]]_vars

\* a loaded report was exported again: no prompt, the save path was chosen
C12_Witness ==
    /\ ReportLoaded
    /\ dialog.outcome = "failed_to_save"
    /\ dialog.path_chosen
    /\ ~dialog.prompted
    /\ win.report_number = 7
    /\ win.report_format = "Y-{number:03d}"
    /\ config.last_report_number = 1

\* C13: one snapshot file per report.  While the window holds a new report (no
\* snapshot path yet), no step overwrites a snapshot that was written for another ODT
\* path.
C13_OneSnapshotPerReport ==
    [][win.last_saved_json_path = "" =>
          \A j \in DOMAIN snapshots \ DOMAIN ForeignSnapshots :
              \/ snapshots'[j] = snapshots[j]
              \/ snapshots'[j].original_odt_path = snapshots[j].original_odt_path]_vars

\* C14: a failing _load_report_from_json leaves the form's fields, the images,
\* report_number, report_format, last_saved_json_path and original_odt_path as they
\* were before the call.
C14_FailedLoadChangesNothing ==
    [][dialog'.outcome \in LoadFailures =>
          /\ content' = content
          /\ images' = images
          /\ win' = win]_vars

\* report_number, report_format, last_saved_json_path and original_odt_path are None
Unset(w) ==
    /\ w.report_number = 0
    /\ w.report_format = ""
    /\ w.last_saved_json_path = ""
    /\ w.original_odt_path = NoPath

\* a run of _export_report got as far as the report number
ExportEnded(d) == d.path_chosen \/ d.outcome \in {"number_cancelled", "save_cancelled"}

\* C29: after the operator chose New Report (_clear_form), whatever exports, loads and
\* clears came before, report_number, report_format, last_saved_json_path and
\* original_odt_path are all unset; and an export started while they are unset shows
\* the report-number prompt with default last_report_number + 1.
C29_NewReportStartsAfresh ==
    [][/\ dialog'.outcome = "new_report" => Unset(win')
       /\ (Unset(win) /\ ExportEnded(dialog'))
             => /\ dialog'.prompted
                /\ dialog'.default_number = config.last_report_number + 1]_vars

\* New Report was chosen after report 1, and the export after it was prompted with 2
C29_Witness ==
    /\ dialog.outcome = "new_report"
    /\ dialog.prompted
    /\ dialog.default_number = 2
    /\ config.last_report_number = 2
    /\ Unset(win)

(***************************************************************************)
(* SpecPrompt: a report of an earlier session is opened from its snapshot,  *)
(* the snapshot file is deleted behind the program's back, Save is clicked  *)
(***************************************************************************)

InitPrompt ==
    /\ win = NewWindow({})
    /\ content = NewForm(win)
    /\ images = <<>>
    /\ now = 1
    /\ pc = "input"
    /\ temp = <<>>
    /\ temp_exists = FALSE
    /\ image_entries = <<>>
    /\ dest = Absent
    /\ dest_before = Absent
    /\ result = "none"
    /\ xml = <<>>
    /\ config \in EarlierConfigs
    /\ snapshots = ("V" :> EarlierSnapshot)
    /\ odt_files = NoFiles
    /\ dialog = NoDialog
    /\ odt_calls = 0
    /\ StoresIdle

\* the snapshot file of the report the window holds is deleted from the data folder
\* (by the operator, outside the program)
SnapshotRemoved ==
    /\ pc = "input"
    /\ win.last_saved_json_path \in DOMAIN snapshots
    /\ Becomes([Here(NoDialog) EXCEPT
          !.snapshots = [k \in DOMAIN snapshots \ {win.last_saved_json_path} |->
                            snapshots[k]]])

NextPrompt == EditAlias \/ LoadReport \/ ExportReport \/ SnapshotRemoved

SpecPrompt == InitPrompt /\ [][NextPrompt]_vars

\* C28: whenever _export_report showed the report-number prompt, the operator accepted
\* a number and then confirmed a save path, last_report_number of the configuration
\* is the accepted number: the two "is this a modification" tests agree.
C28_PromptedNumberIsStored ==
    [][(dialog'.prompted /\ dialog'.path_chosen)
          => config'.last_report_number = dialog'.accepted_number]_vars

\* ---------------------------------------------------------------------------
\* TemplateManager: built-in templates and the templates/custom/ folder
\* ---------------------------------------------------------------------------
\* Names, file stems and template keys are strings, written as sequences of
\* characters; the prefix "custom-" is written as one element so that
\* startswith("custom-") and replace("custom-", "") can be computed.

MaxFiles == 3       \* files in templates/custom/

NameLimit == 50     \* safe_name.lower()[:50]

CustomPrefix == "custom-"

FieldDef(type, label) == ("type" :> type) @@ ("label" :> label)

BuiltInKey == <<"advance-fee">>

BuiltInFieldDefs ==
    ("type" :> FieldDef("text", "Type of scam"))
    @@ ("summary" :> FieldDef("text", "Short summary"))
    @@ ("alias" :> FieldDef("list", "Scammer Alias(es)"))
    @@ ("emails" :> FieldDef("list", "Scammer Email(s)"))
    @@ ("websites" :> FieldDef("list", "Scammer Website(s)"))
    @@ ("social_media" :> FieldDef("list", "Scammer Social Media(s)"))
    @@ ("ips" :> FieldDef("list", "IP(s)"))
    @@ ("locations" :> FieldDef("list", "Geolocation(s)"))
    @@ ("other_info" :> FieldDef("list", "Other info"))
    @@ ("started" :> FieldDef("date", "Started"))
    @@ ("bank_info" :> FieldDef("multiline", "Bank Information"))
    @@ ("other_payments" :> FieldDef("other_payments", "Other Payment Methods"))
    @@ ("amount" :> FieldDef("text", "Fee/Amount"))
    @@ ("scammer_names" :> FieldDef("list", "Scammers real name:"))
    @@ ("passport_ids" :> FieldDef("image_list", "Scammer's Passport/ID"))
    @@ ("scammer_photos" :> FieldDef("image_list", "Photo of Scammer"))
    @@ ("victim_ids" :> FieldDef("image_list", "Possible Victim / Money-Mule ID"))
    @@ ("others" :> FieldDef("images", "Others"))
    @@ ("remarks" :> FieldDef("list", "Remarks"))

\* sections: title -> the field keys listed under it (their order is not modelled)
BuiltInSections ==
    ("Main Info:" :> {"type", "summary", "alias", "emails", "websites", "social_media",
                      "ips", "locations", "other_info", "started"})
    @@ ("Payment Information:" :> {"amount", "bank_info", "other_payments"})
    @@ ("Evidence:" :> {"scammer_names", "passport_ids", "scammer_photos", "victim_ids",
                        "others"})
    @@ ("Remarks:" :> {"remarks"})

TEMPLATES ==
    (BuiltInKey :>
        [name |-> TemplateName("advance-fee"),
         description |-> TemplateDescription("advance-fee"),
         sections |-> BuiltInSections,
         fields |-> BuiltInFieldDefs])

NotFound == [found |-> FALSE]

UnparsableFile == [unparsable |-> TRUE]

\* the same test without the loop over the field definitions
ValidateTemplateKeysOnly(template_data) ==
    {"name", "description", "fields"} \subseteq DOMAIN template_data

\* _validate_template
ValidateTemplate(template_data) ==
    /\ {"name", "description", "fields"} \subseteq DOMAIN template_data
    /\ \A field_key \in DOMAIN template_data.fields :
           {"type", "label"} \subseteq DOMAIN template_data.fields[field_key]

CustomKey(stem) == <<CustomPrefix>> \o stem

\* load_custom_templates: json.load raising and a failed validation both skip the file
Loadable(folder) ==
    {stem \in DOMAIN folder :
        folder[stem] # UnparsableFile /\ ValidateTemplate(folder[stem])}

LoadCustomTemplates(folder) ==
    [template_key \in {CustomKey(stem) : stem \in Loadable(folder)} |->
        folder[CHOOSE stem \in Loadable(folder) : CustomKey(stem) = template_key]]

\* get_all_templates: TEMPLATES.copy() updated with the custom templates
GetAllTemplates(folder) == LoadCustomTemplates(folder) @@ TEMPLATES

\* get_template
GetTemplate(template_key, folder) ==
    IF template_key \in DOMAIN TEMPLATES THEN TEMPLATES[template_key]
    ELSE IF template_key \in DOMAIN LoadCustomTemplates(folder)
         THEN LoadCustomTemplates(folder)[template_key]
         ELSE NotFound

\* c if c.isalnum() or c in ('-', '_') else '_'
KeptChars == {"x", "X", "1", "2", "3", "4", "5", "-", "_", CustomPrefix}

SafeChar(c) == IF c \in KeptChars THEN c ELSE "_"

Lower(c) == IF c = "X" THEN "x" ELSE c

CharCount(c) == IF c = CustomPrefix THEN 7 ELSE 1

RECURSIVE StrLen(_)
StrLen(s) == IF s = <<>> THEN 0 ELSE CharCount(Head(s)) + StrLen(Tail(s))

\* s[:limit]; a cut inside the prefix element does not occur for the names used
Truncate(s, limit) ==
    SubSeq(s, 1, CHOOSE n \in 0..Len(s) :
                     /\ StrLen(SubSeq(s, 1, n)) <= limit
                     /\ n < Len(s) => StrLen(SubSeq(s, 1, n + 1)) > limit)

SafeName(name) ==
    Truncate([i \in 1..Len(name) |-> Lower(SafeChar(name[i]))], NameLimit)

\* filename after counter - 1 rounds of the while loop
Candidate(safe_name, round) ==
    IF round = 0 THEN safe_name ELSE safe_name \o <<"_", ToString(round)>>

\* the file name without the existence test
FirstFilename(safe_name, folder) == safe_name

\* while (custom_folder / f"{filename}.json").exists(): ...
UniqueFilename(safe_name, folder) ==
    Candidate(safe_name,
              CHOOSE round \in 0..Cardinality(DOMAIN folder) :
                  /\ Candidate(safe_name, round) \notin DOMAIN folder
                  /\ \A earlier \in 0..(round - 1) :
                         Candidate(safe_name, earlier) \in DOMAIN folder)

AlwaysIncluded == {"type", "summary", "filename_name", "remarks"}

CategoryOf(field_def) ==
    IF "category" \in DOMAIN field_def THEN field_def["category"] ELSE "Main Info"

\* _generate_sections_from_fields
GenerateSectionsFromFields(fields) ==
    LET others == DOMAIN fields \ AlwaysIncluded
        all == ("Main Info:" :>
                    ((DOMAIN fields \cap {"type", "summary", "filename_name"})
                     \cup {k \in others : CategoryOf(fields[k]) \notin
                              {"Payment Information", "Evidence", "Remarks"}}))
               @@ ("Payment Information:" :>
                    {k \in others : CategoryOf(fields[k]) = "Payment Information"})
               @@ ("Evidence:" :> {k \in others : CategoryOf(fields[k]) = "Evidence"})
               @@ ("Remarks:" :> (DOMAIN fields \cap {"remarks"}))
    IN  [title \in {t \in DOMAIN all : all[t] # {}} |-> all[title]]

\* template_data as save_custom_template builds it
TemplateData(name, description, fields, date) ==
    [name |-> name,
     description |-> description,
     category |-> "custom",
     sections |-> GenerateSectionsFromFields(fields),
     fields |-> fields,
     created_date |-> date,
     version |-> "1.0"]

\* save_custom_template: the folder afterwards and the returned value
SaveCustomTemplate(name, description, fields, folder, date) ==
    LET filename == UniqueFilename(SafeName(name), folder)
        written == filename :> TemplateData(name, description, fields, date)
    IN  [folder |-> written @@ folder, returned |-> filename]

\* template_key.replace("custom-", ""): every occurrence is removed
WithoutPrefix(template_key) == SelectSeq(template_key, LAMBDA c : c # CustomPrefix)

StartsWithPrefix(template_key) ==
    template_key # <<>> /\ Head(template_key) = CustomPrefix

\* delete_custom_template, with unlink succeeding
DeleteCustomTemplate(template_key, folder) ==
    LET filename == WithoutPrefix(template_key) IN
    IF StartsWithPrefix(template_key) /\ filename \in DOMAIN folder
    THEN [folder |-> [stem \in DOMAIN folder \ {filename} |-> folder[stem]],
          returned |-> TRUE]
    ELSE [folder |-> folder, returned |-> FALSE]

\* field definitions as the template editor passes them
EditorField(type, label, category) ==
    FieldDef(type, label) @@ ("category" :> category)

EditorBase ==
    ("type" :> EditorField("text", "Type of scam", "Main Info"))
    @@ ("summary" :> EditorField("text", "Short summary", "Main Info"))
    @@ ("filename_name" :> EditorField("text", "Name for filename generation", "Main Info"))
    @@ ("remarks" :> EditorField("list", "Remarks", "Remarks"))

EditorFieldSets ==
    {EditorBase,
     EditorBase @@ ("amount" :> EditorField("text", "Fee/Amount", "Payment Information"))}

TemplateNames == {<<"x">>, <<"X">>, <<CustomPrefix, "x">>}

\* files a user may copy into templates/custom/
NoLabelFile ==
    [name |-> <<"N">>, description |-> <<"D">>,
     sections |-> ("Main Info:" :> {"type", "alias"}),
     fields |-> ("type" :> FieldDef("text", "Type of scam")) @@ ("alias" :> ("type" :> "list"))]

NoTypeFile ==
    [name |-> <<"N">>, description |-> <<"D">>,
     sections |-> ("Main Info:" :> {"type"}),
     fields |-> ("type" :> ("label" :> "Type of scam"))]

GhostSectionFile ==
    [name |-> <<"G">>, description |-> <<"D">>,
     sections |-> ("Main Info:" :> {"type", "ghost"}),
     fields |-> ("type" :> FieldDef("text", "Type of scam"))]

CopiedFiles == {NoLabelFile, NoTypeFile, GhostSectionFile, UnparsableFile}

CopiedStems == {<<"f">>}

LookupKeys ==
    {BuiltInKey, <<"x">>, <<CustomPrefix, "x">>, <<CustomPrefix, CustomPrefix, "x">>,
     <<CustomPrefix, "f">>, <<CustomPrefix, "y">>}

\* no window action is involved: the folder starts empty, no call has been made
InitTemplates == InitIdle /\ DOMAIN custom_folder = {}

\* TemplateManager.save_custom_template(name, description, fields)
SaveTemplate ==
    \E name \in TemplateNames, fields \in EditorFieldSets :
        LET call == SaveCustomTemplate(name, <<"D">>, fields, custom_folder, now) IN
        /\ Cardinality(DOMAIN custom_folder) < MaxFiles
        /\ custom_folder' = call.folder
        /\ tm_call' = [op |-> "save", name |-> name, fields |-> fields,
                       returned |-> call.returned]
        /\ UNCHANGED <<content, images, now, pc, temp, temp_exists, image_entries, dest,
                       dest_before, result, xml, win, config, snapshots, odt_files,
                       dialog, odt_calls, config_file, cm_config, existing_folders,
                       cm_call>>

\* TemplateManager.delete_custom_template(template_key)
DeleteTemplate ==
    \E template_key \in LookupKeys :
        LET call == DeleteCustomTemplate(template_key, custom_folder) IN
        /\ custom_folder' = call.folder
        /\ tm_call' = [op |-> "delete", key |-> template_key, returned |-> call.returned]
        /\ UNCHANGED <<content, images, now, pc, temp, temp_exists, image_entries, dest,
                       dest_before, result, xml, win, config, snapshots, odt_files,
                       dialog, odt_calls, config_file, cm_config, existing_folders,
                       cm_call>>

\* TemplateManager.get_template(template_key)
LookupTemplate ==
    \E template_key \in LookupKeys :
        /\ tm_call' = [op |-> "get", key |-> template_key,
                       returned |-> GetTemplate(template_key, custom_folder)]
        /\ UNCHANGED <<content, images, now, pc, temp, temp_exists, image_entries, dest,
                       dest_before, result, xml, win, config, snapshots, odt_files,
                       dialog, odt_calls, custom_folder, config_file, cm_config,
                       existing_folders, cm_call>>

\* a file put into templates/custom/ from outside the program
CopyFileIn ==
    \E stem \in CopiedStems, file \in CopiedFiles :
        /\ stem \notin DOMAIN custom_folder
        /\ Cardinality(DOMAIN custom_folder) < MaxFiles
        /\ custom_folder' = (stem :> file) @@ custom_folder
        /\ tm_call' = [op |-> "copy", key |-> stem]
        /\ UNCHANGED <<content, images, now, pc, temp, temp_exists, image_entries, dest,
                       dest_before, result, xml, win, config, snapshots, odt_files,
                       dialog, odt_calls, config_file, cm_config, existing_folders,
                       cm_call>>

NextTemplates == SaveTemplate \/ DeleteTemplate \/ LookupTemplate \/ CopyFileIn

SpecTemplates == InitTemplates /\ [][NextTemplates]_vars

\* C15: a custom template file with a field definition lacking label or type is in
\* neither get_all_templates nor get_template, while the built-in templates and every
\* valid custom template file are available under their keys.
LacksLabelOrType(file) ==
    /\ file # UnparsableFile
    /\ \E k \in DOMAIN file.fields : ~({"type", "label"} \subseteq DOMAIN file.fields[k])

WellFormedFile(file) ==
    file # UnparsableFile /\ ~LacksLabelOrType(file)

C15_InvalidFieldRejected ==
    /\ \A stem \in DOMAIN custom_folder :
        /\ LacksLabelOrType(custom_folder[stem]) =>
              /\ CustomKey(stem) \notin DOMAIN GetAllTemplates(custom_folder)
              /\ GetTemplate(CustomKey(stem), custom_folder) = NotFound
        /\ WellFormedFile(custom_folder[stem]) =>
              /\ CustomKey(stem) \in DOMAIN GetAllTemplates(custom_folder)
              /\ GetAllTemplates(custom_folder)[CustomKey(stem)] = custom_folder[stem]
              /\ GetTemplate(CustomKey(stem), custom_folder) = custom_folder[stem]
    /\ \A k \in DOMAIN TEMPLATES :
        /\ k \in DOMAIN GetAllTemplates(custom_folder)
        /\ GetAllTemplates(custom_folder)[k] = TEMPLATES[k]
        /\ GetTemplate(k, custom_folder) = TEMPLATES[k]

C15_Witness ==
    /\ \E stem \in DOMAIN custom_folder : LacksLabelOrType(custom_folder[stem])
    /\ \E stem \in DOMAIN custom_folder : WellFormedFile(custom_folder[stem])
    /\ tm_call.op = "get"
    /\ tm_call.key = <<CustomPrefix, "f">>
    /\ tm_call.returned = NotFound

\* C16: every template the registry returns has all the field keys of its sections in
\* its fields mapping (a file whose sections name a missing field is rejected on load).
SectionsWithinFields(template) ==
    \A title \in DOMAIN template.sections :
        template.sections[title] \subseteq DOMAIN template.fields

C16_SectionsReferenceFields ==
    \A k \in DOMAIN GetAllTemplates(custom_folder) :
        SectionsWithinFields(GetAllTemplates(custom_folder)[k])

\* C17: a delete_custom_template(k) that returns True was given a key that get_template
\* resolved to a user-created template, and removes exactly that template's file.
ResolvedStems(template_key, folder) ==
    {stem \in Loadable(folder) : CustomKey(stem) = template_key}

C17_DeleteRemovesResolved ==
    [][(tm_call'.op = "delete" /\ tm_call'.returned /\ custom_folder' # custom_folder) =>
          /\ tm_call'.key \notin DOMAIN TEMPLATES
          /\ GetTemplate(tm_call'.key, custom_folder) # NotFound
          /\ DOMAIN custom_folder' =
                 DOMAIN custom_folder \ ResolvedStems(tm_call'.key, custom_folder)
          /\ \A stem \in DOMAIN custom_folder' : custom_folder'[stem] = custom_folder[stem]
      ]_vars

\* C18: save_custom_template returns a key that no stored file has, and leaves every
\* file that was in the folder as it was.
C18_SaveNeverOverwrites ==
    [][(tm_call'.op = "save" /\ custom_folder' # custom_folder) =>
          /\ tm_call'.returned \notin DOMAIN custom_folder
          /\ tm_call'.returned \in DOMAIN custom_folder'
          /\ \A stem \in DOMAIN custom_folder :
                 stem \in DOMAIN custom_folder' /\ custom_folder'[stem] = custom_folder[stem]
      ]_vars

C18_Witness ==
    /\ tm_call.op = "save"
    /\ tm_call.name = <<"X">>
    /\ tm_call.returned = <<"x", "_", "1">>
    /\ <<"x">> \in DOMAIN custom_folder
    /\ custom_folder[<<"x">>].name = <<"x">>
    /\ custom_folder[<<"x", "_", "1">>].name = <<"X">>

\* C19: after save_custom_template returns, get_template of the returned key is the
\* template just saved (same name, description and fields).
C19_SaveThenGet ==
    tm_call.op = "save" =>
        LET template == GetTemplate(tm_call.returned, custom_folder) IN
        /\ template # NotFound
        /\ template.name = tm_call.name
        /\ template.description = <<"D">>
        /\ template.fields = tm_call.fields

\* ---------------------------------------------------------------------------
\* ConfigManager: scam_report_config.json as a JSON object
\* ---------------------------------------------------------------------------
\* config_file and cm_config are JSON objects: functions from key to value.

RecognizedKeys ==
    {"output_directory", "last_report_number", "numbering_format", "report_folder",
     "last_used_folder", "last_template_key"}

DefaultObject ==
    ("last_report_number" :> 0)
    @@ ("numbering_format" :> "{number}")
    @@ ("output_directory" :> "")
    @@ ("report_folder" :> "")
    @@ ("last_used_folder" :> "")
    @@ ("last_template_key" :> "")

UnparsableConfig == [unparsable |-> TRUE]

\* load_config that keeps the recognized keys only
LoadRecognizedOnly(file) ==
    IF file = UnparsableConfig THEN DefaultObject
    ELSE [k \in RecognizedKeys |-> IF k \in DOMAIN file THEN file[k] ELSE DefaultObject[k]]

\* load_config: the parsed object with the missing recognized keys added
LoadConfig(file) ==
    IF file = UnparsableConfig THEN DefaultObject ELSE file @@ DefaultObject

\* reload_config: as load_config, but the instance is kept when the file does not parse
ReloadedConfig(file, instance) ==
    IF file = UnparsableConfig THEN instance ELSE file @@ DefaultObject

\* self.config[key] = value
SetKey(instance, key, value) == (key :> value) @@ instance

\* save_config: json.dump(self.config) into the file, or an exception before the
\* file is opened; the exception is swallowed
SavedFile(instance, file, written) == IF written THEN instance ELSE file

\* str(Path(folder_str).resolve()) of a relative path
Resolve(folder_str) == "/cwd/" \o folder_str

FolderSamples == {"r"}

FormatSamples == {"{number}", "Y-{number:03d}"}

TemplateKeySamples == {"custom-x"}

\* configuration files found at start-up
ConfigFileSamples ==
    {NoObject,
     ("theme" :> "dark") @@ ("last_report_number" :> 1),
     ("theme" :> "dark") @@ ("window" :> "max") @@ DefaultObject,
     UnparsableConfig}

otherVars ==
    <<content, images, now, pc, temp, temp_exists, image_entries, dest, dest_before,
      result, xml, win, config, snapshots, odt_files, dialog, odt_calls, custom_folder,
      tm_call, existing_folders, cm_call>>

\* ConfigManager.__init__
InitConfig ==
    /\ content = EmptyContent
    /\ images = <<>>
    /\ now = 1
    /\ pc = "input"
    /\ temp = <<>>
    /\ temp_exists = FALSE
    /\ image_entries = <<>>
    /\ dest = Absent
    /\ dest_before = Absent
    /\ result = "none"
    /\ xml = <<>>
    /\ win = NewWindow({})
    /\ config = DefaultConfig
    /\ snapshots = <<>>
    /\ odt_files = NoFiles
    /\ dialog = NoDialog
    /\ odt_calls = 0
    /\ custom_folder = [s \in {} |-> NoObject]
    /\ tm_call = NoCall
    /\ existing_folders = {}
    /\ cm_call = NoCall
    /\ config_file \in ConfigFileSamples
    /\ cm_config = LoadConfig(config_file)

\* the assignments of a setter followed by its self.save_config()
SetAndSave(instance) ==
    \E written \in BOOLEAN :
        /\ cm_config' = instance
        /\ config_file' = SavedFile(instance, config_file, written)
        /\ UNCHANGED otherVars

\* ConfigManager() constructed by the window, a dialog or main.py
NewConfigManager ==
    /\ cm_config' = LoadConfig(config_file)
    /\ UNCHANGED <<config_file, otherVars>>

ReloadConfig ==
    /\ cm_config' = ReloadedConfig(config_file, cm_config)
    /\ UNCHANGED <<config_file, otherVars>>

SaveConfig == SetAndSave(cm_config)

\* set_report_folder: both folder keys, save_config, reload_config
SetReportFolder ==
    \E folder_path \in FolderSamples, written \in BOOLEAN :
        LET folder_str == Resolve(folder_path)
            instance == SetKey(SetKey(cm_config, "report_folder", folder_str),
                               "last_used_folder", folder_str)
        IN  /\ config_file' = SavedFile(instance, config_file, written)
            /\ cm_config' = ReloadedConfig(config_file', instance)
            /\ UNCHANGED otherVars

SetLastUsedFolder ==
    \E folder_path \in FolderSamples \cup {""} :
        SetAndSave(SetKey(cm_config, "last_used_folder",
                          IF folder_path = "" THEN "" ELSE Resolve(folder_path)))

\* update_report_folder_from_dialog; prompt_for_folder and ensure_report_folder_exists
\* end with the same two assignments and save_config
UpdateReportFolderFromDialog ==
    \E selected_folder \in FolderSamples :
        SetAndSave(SetKey(SetKey(cm_config, "last_used_folder", selected_folder),
                          "report_folder", selected_folder))

UpdateReportNumber ==
    \E number \in 1..MaxNumber, format_str \in FormatSamples :
        SetAndSave(SetKey(SetKey(cm_config, "last_report_number", number),
                          "numbering_format", format_str))

SetLastTemplateKey ==
    \E template_key \in TemplateKeySamples :
        SetAndSave(SetKey(cm_config, "last_template_key", template_key))

UpdateOutputDirectory ==
    \E new_directory \in FolderSamples :
        SetAndSave(SetKey(cm_config, "output_directory", new_directory))

ResetOutputDirectory ==
    SetAndSave(SetKey(SetKey(SetKey(cm_config, "output_directory", ""),
                             "report_folder", ""),
                      "last_used_folder", ""))

NextConfig ==
    \/ NewConfigManager
    \/ ReloadConfig
    \/ SaveConfig
    \/ SetReportFolder
    \/ SetLastUsedFolder
    \/ UpdateReportFolderFromDialog
    \/ UpdateReportNumber
    \/ SetLastTemplateKey
    \/ UpdateOutputDirectory
    \/ ResetOutputDirectory

SpecConfig == InitConfig /\ [][NextConfig]_vars

UnknownKeys(file) == DOMAIN file \ RecognizedKeys

\* what load_config returns for the file on disk has every recognized key, the
\* default for the ones the file lacks, and every key of the file with its value
LoadFillsAndKeeps ==
    config_file # UnparsableConfig =>
        LET loaded == LoadConfig(config_file) IN
        /\ RecognizedKeys \subseteq DOMAIN loaded
        /\ \A k \in RecognizedKeys \ DOMAIN config_file : loaded[k] = DefaultObject[k]
        /\ \A k \in DOMAIN config_file : k \in DOMAIN loaded /\ loaded[k] = config_file[k]

\* every step of the instance leaves the unknown keys of the file in the file and
\* in the instance, with their values
UnknownKeysStay ==
    config_file # UnparsableConfig =>
        \A k \in UnknownKeys(config_file) :
            /\ k \in DOMAIN config_file' /\ config_file'[k] = config_file[k]
            /\ k \in DOMAIN cm_config' /\ cm_config'[k] = config_file[k]

Cwd == "/cwd"

DefaultReports == "/cwd/Reports"

StoredFolders == {"/cwd/a", "/cwd/b", "/cwd/r"}

\* configurations left on disk by earlier runs
FolderConfigSamples ==
    {DefaultObject,
     SetKey(SetKey(DefaultObject, "report_folder", "/cwd/a"), "last_used_folder", "/cwd/b"),
     SetKey(DefaultObject, "output_directory", "/cwd/a"),
     SetKey(SetKey(DefaultObject, "output_directory", "/cwd/a"), "last_used_folder", "/cwd/b")}

\* folder and Path(folder).exists()
Usable(folder, existing) == folder # "" /\ folder \in existing

\* prompt_for_folder: the folder the operator ends up with
PromptedFolder(yes, chosen_dir) ==
    IF yes /\ chosen_dir # "" THEN chosen_dir ELSE DefaultReports

\* get_output_directory: returned path, instance, file and directories afterwards
GetOutputDirectoryResult(instance, file, existing, yes, chosen_dir, written) ==
    LET report_folder == instance["report_folder"]
        last_used_folder == instance["last_used_folder"]
        output_dir == instance["output_directory"]
        both(folder) == SetKey(SetKey(instance, "report_folder", folder),
                               "last_used_folder", folder)
        prompted == PromptedFolder(yes, chosen_dir)
    IN  IF Usable(report_folder, existing)
        THEN [returned |-> report_folder, instance |-> instance, file |-> file,
              existing |-> existing, prompted |-> FALSE]
        ELSE IF Usable(last_used_folder, existing)
        THEN [returned |-> last_used_folder,
              instance |-> SetKey(instance, "report_folder", last_used_folder),
              file |-> file, existing |-> existing, prompted |-> FALSE]
        ELSE IF Usable(output_dir, existing)
        THEN [returned |-> output_dir, instance |-> both(output_dir),
              file |-> SavedFile(both(output_dir), file, written),
              existing |-> existing, prompted |-> FALSE]
        ELSE [returned |-> prompted, instance |-> both(prompted),
              file |-> SavedFile(both(prompted), file, written),
              existing |-> IF prompted = DefaultReports
                           THEN existing \cup {DefaultReports} ELSE existing,
              prompted |-> TRUE]

\* get_initial_folder_for_dialog
GetInitialFolderForDialogResult(instance, existing) ==
    IF Usable(instance["last_used_folder"], existing) THEN instance["last_used_folder"]
    ELSE IF Usable(instance["report_folder"], existing) THEN instance["report_folder"]
    ELSE Cwd

InitFolders ==
    /\ content = EmptyContent
    /\ images = <<>>
    /\ now = 1
    /\ pc = "input"
    /\ temp = <<>>
    /\ temp_exists = FALSE
    /\ image_entries = <<>>
    /\ dest = Absent
    /\ dest_before = Absent
    /\ result = "none"
    /\ xml = <<>>
    /\ win = NewWindow({})
    /\ config = DefaultConfig
    /\ snapshots = <<>>
    /\ odt_files = NoFiles
    /\ dialog = NoDialog
    /\ odt_calls = 0
    /\ custom_folder = [s \in {} |-> NoObject]
    /\ tm_call = NoCall
    /\ config_file \in FolderConfigSamples
    /\ cm_config = LoadConfig(config_file)
    /\ existing_folders \in SUBSET StoredFolders
    /\ cm_call = NoCall

frameVars ==
    <<content, images, now, pc, temp, temp_exists, image_entries, dest, dest_before,
      result, xml, win, config, snapshots, odt_files, dialog, odt_calls, custom_folder,
      tm_call>>

\* ConfigManager.get_output_directory()
GetOutputDirectory ==
    \E yes \in BOOLEAN, chosen_dir \in {"", "/cwd/b"}, written \in BOOLEAN :
        LET call == GetOutputDirectoryResult(cm_config, config_file, existing_folders,
                                             yes, chosen_dir, written)
        IN  /\ chosen_dir # "" => chosen_dir \in existing_folders
            /\ cm_config' = call.instance
            /\ config_file' = call.file
            /\ existing_folders' = call.existing
            /\ cm_call' = [op |-> "get_output_directory", config |-> cm_config,
                           existing |-> existing_folders, returned |-> call.returned,
                           prompted |-> call.prompted]
            /\ UNCHANGED frameVars

\* ConfigManager.get_initial_folder_for_dialog()
GetInitialFolderForDialog ==
    /\ cm_call' = [op |-> "get_initial_folder_for_dialog", config |-> cm_config,
                   existing |-> existing_folders,
                   returned |-> GetInitialFolderForDialogResult(cm_config, existing_folders),
                   prompted |-> FALSE]
    /\ UNCHANGED <<cm_config, config_file, existing_folders, frameVars>>

\* a report folder is deleted or moved outside the program
FolderRemoved ==
    \E folder \in existing_folders :
        /\ existing_folders' = existing_folders \ {folder}
        /\ UNCHANGED <<cm_config, config_file, cm_call, frameVars>>

NextFolders ==
    \/ GetOutputDirectory
    \/ GetInitialFolderForDialog
    \/ FolderRemoved
    \/ SetReportFolder
    \/ SetLastUsedFolder

SpecFolders == InitFolders /\ [][NextFolders]_vars

FolderLookups == {"get_output_directory", "get_initial_folder_for_dialog"}

\* C21: a folder lookup returns report_folder when it is set and exists, otherwise
\* last_used_folder when it is set and exists, otherwise output_directory when it is
\* set and exists.
C21_ReportFolderFirst ==
    cm_call.op \in FolderLookups =>
        LET stored == cm_call.config
            there(key) == Usable(stored[key], cm_call.existing)
        IN  /\ there("report_folder") => cm_call.returned = stored["report_folder"]
            /\ (~there("report_folder") /\ there("last_used_folder")) =>
                   cm_call.returned = stored["last_used_folder"]
            /\ (~there("report_folder") /\ ~there("last_used_folder")
                    /\ there("output_directory")) =>
                   cm_call.returned = stored["output_directory"]

\* C22: when create_odt has returned, True or False, the temporary directory and
\* everything staged in it are gone.
C22_TempRemovedOnReturn ==
    pc = "returned" => ~temp_exists /\ temp = <<>>

C22_Witness ==
    /\ pc = "returned"
    /\ result = FALSE
    /\ image_entries # <<>>
    /\ dest.exists
    /\ ~dest.complete
    /\ Len(dest.entries) >= 1
    /\ ~temp_exists

\* the frames of content.xml that show the image staged with this index
FramesOf(doc, index) ==
    {i \in 1..Len(doc) : doc[i].tag = "frame" /\ doc[i].index = index}

Undecodable == {i \in 1..Len(StagedImages(images)) : StagedImages(images)[i].data.kind = "junk"}

WidthSamples == {1, 12, 96, 100, 576, 577, 640, 1920}

HeightSamples == {1, 12, 100, 480, 1080}

SizedImage(w, h) ==
    [name |-> <<"p.jpg">>, data |-> [kind |-> "jpeg", w |-> w, h |-> h]]

AddSizedImage ==
    \E w \in WidthSamples, h \in HeightSamples : AddImage("others", SizedImage(w, h))

NextImages == AddSizedImage \/ GenerateContent

SpecImages == InitIdle /\ [][NextImages]_vars

\* text is the two-decimal form of a number within half a hundredth of num / den
IsRounded(text, num, den) ==
    \E hundredths \in {(100 * num) \div den, (100 * num) \div den + 1} :
        /\ text = Fmt2(hundredths)
        /\ 2 * (100 * num - hundredths * den) <= den
        /\ 2 * (hundredths * den - 100 * num) <= den

\* C24: a decodable image of w by h pixels gets the width min(w/96, 6) inches and the
\* height h/96 inches times the same scale factor (6/(w/96) above 6 inches, else 1),
\* both to two decimals; 1920 by 1080 gives 6.00in by 3.38in.
C24_DisplaySize ==
    Generated =>
        \A i \in 1..Len(image_entries) :
            LET data == StagedImages(images)[i].data
                w == data.w
                h == data.h
            IN  /\ w <= MaxWidthIn * DPI =>
                       /\ IsRounded(image_entries[i].width, w, DPI)
                       /\ IsRounded(image_entries[i].height, h, DPI)
                /\ w > MaxWidthIn * DPI =>
                       /\ image_entries[i].width = "6.00in"
                       /\ IsRounded(image_entries[i].height, h * MaxWidthIn, w)
                /\ (w = 1920 /\ h = 1080) => image_entries[i].height = "3.38in"

C24_Witness ==
    /\ Generated
    /\ Len(image_entries) = 2
    /\ StagedImages(images)[1].data = [kind |-> "jpeg", w |-> 1920, h |-> 1080]
    /\ image_entries[1].width = "6.00in"
    /\ image_entries[1].height = "3.38in"
    /\ StagedImages(images)[2].data = [kind |-> "jpeg", w |-> 100, h |-> 480]
    /\ image_entries[2].width = "1.04in"
    /\ image_entries[2].height = "5.00in"

\* the headings of the four image categories, in the order passport_ids,
\* scammer_photos, victim_ids, others
GroupHeadings ==
    <<<<"Scammers passport/ID:">>, <<"Photo of scammer (video available):">>,
      <<"Possible Victim / Money-Mule ID:">>, <<"Others:">>>>

GroupCategories == <<"passport_ids", "scammer_photos", "victim_ids", "others">>

HeadingRank(label) == CHOOSE r \in 1..Len(GroupHeadings) : GroupHeadings[r] = label

GroupHeads(doc) ==
    {p \in 1..Len(doc) :
        doc[p].tag = "p" /\ \E r \in 1..Len(GroupHeadings) : doc[p].label = GroupHeadings[r]}

\* the heading under which the element at position f stands
HeadOf(doc, f) == CHOOSE p \in GroupHeads(doc) :
                      p < f /\ \A q \in GroupHeads(doc) : q < f => q <= p

InitTwice ==
    /\ InitOdt
    /\ dest = Absent

\* the caller calls create_odt once more, same arguments, same output_path
CallAgain ==
    /\ pc = "returned"
    /\ odt_calls + 1 < MaxCalls
    /\ odt_calls' = odt_calls + 1
    /\ pc' = "input"
    /\ result' = "none"
    /\ UNCHANGED <<content, images, now, temp, temp_exists, image_entries, dest,
                   dest_before, xml, win, config, snapshots, odt_files, dialog,
                   storeVars>>

NextTwice ==
    \/ /\ odt_calls = 0
       /\ \E cat \in ImageCategories : \E img \in ImageSamples : AddImage(cat, img)
    \/ CreateOdt
    \/ CallAgain

SpecTwice == InitTwice /\ [][NextTwice]_vars

\* C26: a second successful create_odt with the same content and images writes an
\* archive with the same entries (content.xml, meta.xml, manifest, pictures) as the
\* first one.
C26_SameArchive ==
    (Returned /\ result = TRUE /\ odt_calls > 0 /\ dest_before.complete) =>
        dest.entries = dest_before.entries

(***************************************************************************)
(* Every populated field is in the document (SpecContent)                   *)
(***************************************************************************)

\* the fields of the built-in template whose type is text or list
TextAndListFields ==
    {k \in DOMAIN BuiltInFieldDefs : BuiltInFieldDefs[k]["type"] \in {"text", "list"}}

\* t is part of the text of some element of doc
IsInfix(t, text) ==
    \E i \in 0..(Len(text) - Len(t)) : SubSeq(text, i + 1, i + Len(t)) = t

AppearsIn(doc, t) == \E i \in 1..Len(doc) : IsInfix(t, doc[i].text)

\* the values the operator entered into the field k (the scam type may be shown in
\* its normalised wording; the placeholder of the real-name field is no entered value)
EnteredValues(c, k) ==
    IF c[k].kind = "list" THEN {c[k].v[j] : j \in 1..Len(c[k].v)} \ {Placeholder}
    ELSE IF k = "type" THEN {NormalizeType(c[k].v)}
    ELSE {c[k].v}

\* C30: every text or list field of the template that is populated in ReportContent
\* (social_media, other_info and every entry of scammer_names included) appears in
\* the generated content.xml.
C30_EveryFieldShown ==
    Generated =>
        \A k \in DOMAIN content \cap TextAndListFields :
            \A t \in EnteredValues(content, k) : AppearsIn(xml, t)

====
